---- MODULE Spec2Model ----
(***************************************************************************)
(* Matchmaking failure classification ("cursor rule") of the three         *)
(* analyzer scripts under "Automated Script":                              *)
(*   Athena   = Analyzer_Automated.py              (all phases evaluated)  *)
(*   AWS      = automated_matchmaking_analyzer.py  (stops at first failure)*)
(*   Metabase = Analyzer_from_metabase_to_AWS.py   (stops at first failure)*)
(*                                                                         *)
(* A log text is a sequence of tokens: marker literals, the attribute      *)
(* "registrationId":"<id>", the attributes the patterns look for, and the  *)
(* newline.  The regular expressions of the scripts are sequences of       *)
(* literals joined by ".*" and are evaluated on that text as re.findall    *)
(* evaluates them, with and without re.DOTALL.  Registration ids are plain *)
(* identifiers (no regular-expression metacharacters); payload values the  *)
(* scripts only copy out of the log (entryFee, gameId, podip) and the      *)
(* echoed log_file path are left out of the result records.                *)
(*                                                                         *)
(* matchmaking_analyzer.py: the game type and status of a failed game from *)
(* its player count and max_seats (detect_game_type_and_status), and the   *)
(* per-game list analyze_generic_matchmaking_patterns builds from the rows *)
(* of the CSV file.                                                        *)
(*                                                                         *)
(* The aggregation of the classified sessions of a run, by each of the     *)
(* three scripts (analyze_matchmaking_failures, the printed breakdown,     *)
(* process_csv_file with its summary report).                              *)
(*                                                                         *)
(* Analyzer_Automated.py: the wait for the Athena query                    *)
(* (_wait_for_query_completion) and the workers of the parallel log fetch  *)
(* that share a cached ZIP (_download_registration_log).                   *)
(*                                                                         *)
(* cgp_missed_merge_analysis.py: find_peak_traffic_window.                 *)
(***************************************************************************)
EXTENDS Integers, Sequences, FiniteSets, TLC

VARIABLES
    log,              \* the log file of the run: [exists, lines]
    clock,            \* wall clock read by datetime.now()
    analyzer,         \* the script that is run
    reg_id,           \* the registration id the run classifies
    calls,            \* classifications made so far in the run
    analysis_result,  \* the dict returned by the last classification
    participants,     \* matchmaking_analyzer.py: the player count of a failed game
    capacity,         \* matchmaking_analyzer.py: the max_seats of that game
    capacity_result,  \* the tuple detect_game_type_and_status returned
    csv_file,         \* matchmaking_analyzer.py: the rows of the CSV file
    game_analysis,    \* the list built from the rows, one entry per game
    pc,               \* position of the CSV analysis: "start" or "done"
    log_files,        \* the sessions handed to the aggregation of a run
    analysis_results, \* the dict analyze_matchmaking_failures returned
    printed,          \* Analyzer_Automated.py: the distribution lines printed
    self_analysis_results,  \* automated_matchmaking_analyzer.py: self.analysis_results
    summary,          \* automated_matchmaking_analyzer.py: the last summary report
    runs,             \* aggregation runs made on the analyzer instance
    query_execution,  \* Analyzer_Automated.py: the Athena query execution
    waited,           \* sleeps made by _wait_for_query_completion
    wait_pc,          \* position of _wait_for_query_completion
    wait_error,       \* the message of the exception it raised
    zip_cache,        \* Analyzer_Automated.py: the file at the cache path of the ZIP
    worker_pc,        \* position of each worker in _download_registration_log
    traffic_df,       \* cgp_missed_merge_analysis.py: the rows of the dataframe
    window_hours,     \* the window length asked for
    peak              \* what find_peak_traffic_window returned

classifier_vars == <<log, clock, analyzer, reg_id, calls, analysis_result>>
capacity_vars == <<participants, capacity, capacity_result>>
csv_vars == <<csv_file, game_analysis, pc>>
report_vars ==
    <<log_files, analysis_results, printed, self_analysis_results, summary, runs>>

wait_vars == <<query_execution, waited, wait_pc, wait_error>>
fetch_vars == <<zip_cache, worker_pc>>
peak_vars == <<traffic_df, window_hours, peak>>

vars ==
    <<classifier_vars, capacity_vars, csv_vars, report_vars,
      wait_vars, fetch_vars, peak_vars>>

(***************************************************************************)
(* Bounds                                                                  *)
(***************************************************************************)
MaxLogLen == 2        \* free log lines after the recorded journey prefix
MaxProgress == 4      \* how far r1's recorded journey may have got (see Progress)
MaxClock == 1         \* clock ticks
MaxCount == 8         \* player counts range over -MaxCount..MaxCount
MaxSeats == 8         \* max_seats ranges over -MaxSeats..MaxSeats and NaN
MaxRows == 2          \* rows of the CSV file
MaxSessions == 3      \* sessions aggregated in one run
MaxRuns == 2          \* aggregation runs on one analyzer instance
MaxPolls == 10        \* sleeps of _wait_for_query_completion that are counted
MaxWorkers == 3       \* workers of the parallel log fetch
MaxRecords == 3       \* rows of the dataframe of find_peak_traffic_window
MaxTime == 7          \* updated_at ranges over 0..MaxTime half hours
MaxWindow == 2        \* window_hours ranges over 1..MaxWindow

RegIds == {"r1", "r2"}
Analyzers == {"Athena", "AWS", "Metabase"}

(***************************************************************************)
(* Log text                                                                *)
(***************************************************************************)
NL == "\n"
REGISTER_REQUEST == "API New Request: /v1.0/super/tournament/registerTournament"
REGISTER_SUCCESS == "API Success: /v1.0/super/tournament/registerTournament"
DETAILS_REQUEST == "API New Request: /v1.0/super/tournament/getTournamentDetails"
DETAILS_SUCCESS == "API Success: /v1.0/super/tournament/getTournamentDetails"
SOCKET_URL == "Socket url-"
SOCKET_CONNECTED == "Socket connected with id-"
SOCKET_FAILED == "Socket connection failed-"
SOCKET_EVENT == "eventHandler gameplay socket event-"
TIMER_EXPIRED == "backToLobbyInterval Timer expired"
TABLE_ASSIGNED == "\"registrationStatus\":\"TABLE_ASSIGNED\""
STATE_FINDING == "\"state\":\"FINDING\""
EN_MATCH_MAKING_FAILED == "\"en\":\"MATCH_MAKING_FAILED\""
EN_ROUND_STARTING == "\"en\":\"ROUND_STARTING\""

RegistrationIdAttr(registration_id) == "\"registrationId\":\"" \o registration_id \o "\""

NoId == "-"
NoField == "-"

\* One log line: a marker, then the payload (registration id, one field).
LogLine(marker, rid, field) == [marker |-> marker, rid |-> rid, field |-> field]

Line(e) ==
    <<e.marker>>
    \o (IF e.rid # NoId THEN <<RegistrationIdAttr(e.rid)>> ELSE <<>>)
    \o (IF e.field # NoField THEN <<e.field>> ELSE <<>>)
    \o <<NL>>

RECURSIVE Text(_)
Text(lines) == IF lines = <<>> THEN <<>> ELSE Line(Head(lines)) \o Text(Tail(lines))

\* The lines the game client writes.
LogLines ==
    {LogLine(REGISTER_REQUEST, NoId, NoField), LogLine(TIMER_EXPIRED, NoId, NoField)}
    \cup {LogLine(m, r, NoField) :
            m \in {REGISTER_SUCCESS, DETAILS_REQUEST, DETAILS_SUCCESS,
                   SOCKET_URL, SOCKET_CONNECTED, SOCKET_FAILED},
            r \in RegIds}
    \cup {LogLine(DETAILS_SUCCESS, r, TABLE_ASSIGNED) : r \in RegIds}
    \cup {LogLine(SOCKET_EVENT, r, f) :
            r \in RegIds,
            f \in {STATE_FINDING, EN_MATCH_MAKING_FAILED, EN_ROUND_STARTING}}

\* The lines of a session that went through every stage.
Journey(r) ==
    << LogLine(REGISTER_REQUEST, NoId, NoField),
       LogLine(REGISTER_SUCCESS, r, NoField),
       LogLine(DETAILS_REQUEST, r, NoField),
       LogLine(DETAILS_SUCCESS, r, TABLE_ASSIGNED),
       LogLine(SOCKET_URL, r, NoField),
       LogLine(SOCKET_CONNECTED, r, NoField),
       LogLine(SOCKET_EVENT, r, STATE_FINDING),
       LogLine(SOCKET_EVENT, r, EN_ROUND_STARTING) >>

\* Lines recorded once the session is registered (1), has its table (2), is
\* connected (3), has entered the queue (4), has seen the round start (5).
Progress == <<2, 4, 6, 7, 8>>

StagePrefix(k) ==
    IF k = 0 THEN <<>>
    ELSE SubSeq(Journey("r1"), 1, Progress[IF k > Len(Progress) THEN Len(Progress) ELSE k])

FreeLogs == UNION {[1..n -> LogLines] : n \in 0..MaxLogLen}

NoLogFile == [exists |-> FALSE, lines |-> <<>>]

LogFiles ==
    {NoLogFile}
    \cup {[exists |-> TRUE, lines |-> StagePrefix(k) \o t] :
            k \in 0..MaxProgress, t \in FreeLogs}

(***************************************************************************)
(* re.findall(pattern, text[, re.DOTALL]) for a pattern l1.*l2.*...ln:     *)
(* the number of non-overlapping matches, scanning left to right.  "."     *)
(* does not match the newline unless dotall; ".*" is greedy.               *)
(***************************************************************************)
Positions(tok, text, lo, hi) == {k \in lo..hi : text[k] = tok}

Minimum(S) == CHOOSE m \in S : \A k \in S : m <= k
Maximum(S) == CHOOSE m \in S : \A k \in S : m >= k

\* Last position a match starting at i may reach.
MatchLimit(text, dotall, i) ==
    IF dotall THEN Len(text)
    ELSE LET nls == Positions(NL, text, i, Len(text))
         IN IF nls = {} THEN Len(text) ELSE Minimum(nls) - 1

\* Can literals pattern[k..] be found in order in text[from..limit]?
RECURSIVE Feasible(_, _, _, _, _)
Feasible(pattern, k, text, from, limit) ==
    IF k > Len(pattern) THEN TRUE
    ELSE LET ps == Positions(pattern[k], text, from, limit)
         IN IF ps = {} THEN FALSE
            ELSE Feasible(pattern, k + 1, text, Minimum(ps) + 1, limit)

\* End of the (greedy) match that starts at i, 0 if none starts there.
MatchEnd(pattern, text, dotall, i) ==
    LET limit == MatchLimit(text, dotall, i)
    IN IF text[i] # pattern[1] THEN 0
       ELSE IF ~Feasible(pattern, 2, text, i + 1, limit) THEN 0
       ELSE IF Len(pattern) = 1 THEN i
       ELSE Maximum(Positions(pattern[Len(pattern)], text, i + 1, limit))

RECURSIVE FindAllFrom(_, _, _, _)
FindAllFrom(pattern, text, dotall, i) ==
    IF i > Len(text) THEN 0
    ELSE LET e == MatchEnd(pattern, text, dotall, i)
         IN IF e = 0 THEN FindAllFrom(pattern, text, dotall, i + 1)
            ELSE 1 + FindAllFrom(pattern, text, dotall, e + 1)

findall(pattern, text, dotall) == FindAllFrom(pattern, text, dotall, 1)

\* dict.get(key, default)
Get(d, key, default) == IF key \in DOMAIN d THEN d[key] ELSE default

(***************************************************************************)
(* Analyzer_Automated.py: stage evaluators                                 *)
(***************************************************************************)
\* Variant: the success pattern does not name the registration id.
Athena_analyze_phase1_AnySuccess(log_content, registration_id) ==
    LET register_requests == findall(<<REGISTER_REQUEST>>, log_content, FALSE)
        success_matches == findall(<<REGISTER_SUCCESS>>, log_content, TRUE)
    IN IF register_requests > 0
       THEN IF success_matches > 0
            THEN [status |-> "SUCCESS",
                  details |-> [api_request_found |-> TRUE,
                               request_count |-> register_requests,
                               api_success_found |-> TRUE]]
            ELSE [status |-> "FAILED",
                  details |-> [api_request_found |-> TRUE,
                               request_count |-> register_requests,
                               api_success_found |-> FALSE,
                               failure_reason |->
                                   "Registration API call failed or registrationId not generated"]]
       ELSE [status |-> "FAILED",
             details |-> [api_request_found |-> FALSE,
                          failure_reason |-> "No registration API request found"]]

\* Variant: the registration request is not required.
Athena_analyze_phase1_NoRequestCheck(log_content, registration_id) ==
    LET register_requests == findall(<<REGISTER_REQUEST>>, log_content, FALSE)
        success_matches ==
            findall(<<REGISTER_SUCCESS, RegistrationIdAttr(registration_id)>>,
                    log_content, TRUE)
    IN IF success_matches > 0
       THEN [status |-> "SUCCESS",
             details |-> [api_request_found |-> register_requests > 0,
                          request_count |-> register_requests,
                          api_success_found |-> TRUE]]
       ELSE [status |-> "FAILED",
             details |-> [api_request_found |-> register_requests > 0,
                          api_success_found |-> FALSE,
                          failure_reason |->
                              "Registration API call failed or registrationId not generated"]]

Athena_analyze_phase1_registration(log_content, registration_id) ==
    LET register_requests == findall(<<REGISTER_REQUEST>>, log_content, FALSE)
        success_matches ==
            findall(<<REGISTER_SUCCESS, RegistrationIdAttr(registration_id)>>,
                    log_content, TRUE)
    IN IF register_requests > 0
       THEN IF success_matches > 0
            THEN [status |-> "SUCCESS",
                  details |-> [api_request_found |-> TRUE,
                               request_count |-> register_requests,
                               api_success_found |-> TRUE]]
            ELSE [status |-> "FAILED",
                  details |-> [api_request_found |-> TRUE,
                               request_count |-> register_requests,
                               api_success_found |-> FALSE,
                               failure_reason |->
                                   "Registration API call failed or registrationId not generated"]]
       ELSE [status |-> "FAILED",
             details |-> [api_request_found |-> FALSE,
                          failure_reason |-> "No registration API request found"]]

\* Variant: the branch without a request leaves the status as initialised.
Athena_analyze_phase2_StatusNotSet(log_content, registration_id) ==
    LET details_requests ==
            findall(<<DETAILS_REQUEST, RegistrationIdAttr(registration_id)>>,
                    log_content, TRUE)
        assigned_matches ==
            findall(<<DETAILS_SUCCESS, RegistrationIdAttr(registration_id),
                      TABLE_ASSIGNED>>, log_content, TRUE)
    IN IF details_requests > 0
       THEN IF assigned_matches > 0
            THEN [status |-> "SUCCESS",
                  details |-> [api_request_found |-> TRUE, table_assigned |-> TRUE]]
            ELSE [status |-> "FAILED",
                  details |-> [api_request_found |-> TRUE,
                               table_assigned |-> FALSE,
                               failure_reason |->
                                   "Table assignment failed or status not TABLE_ASSIGNED"]]
       ELSE [status |-> "UNKNOWN",
             details |-> [api_request_found |-> FALSE,
                          failure_reason |-> "No getTournamentDetails API request found"]]

\* Variant: the success pattern does not look at the registration status.
Athena_analyze_phase2_AnyStatus(log_content, registration_id) ==
    LET details_requests ==
            findall(<<DETAILS_REQUEST, RegistrationIdAttr(registration_id)>>,
                    log_content, TRUE)
        assigned_matches ==
            findall(<<DETAILS_SUCCESS, RegistrationIdAttr(registration_id)>>,
                    log_content, TRUE)
    IN IF details_requests > 0
       THEN IF assigned_matches > 0
            THEN [status |-> "SUCCESS",
                  details |-> [api_request_found |-> TRUE, table_assigned |-> TRUE]]
            ELSE [status |-> "FAILED",
                  details |-> [api_request_found |-> TRUE,
                               table_assigned |-> FALSE,
                               failure_reason |->
                                   "Table assignment failed or status not TABLE_ASSIGNED"]]
       ELSE [status |-> "FAILED",
             details |-> [api_request_found |-> FALSE,
                          failure_reason |-> "No getTournamentDetails API request found"]]

Athena_analyze_phase2_table_assignment(log_content, registration_id) ==
    LET details_requests ==
            findall(<<DETAILS_REQUEST, RegistrationIdAttr(registration_id)>>,
                    log_content, TRUE)
        assigned_matches ==
            findall(<<DETAILS_SUCCESS, RegistrationIdAttr(registration_id),
                      TABLE_ASSIGNED>>, log_content, TRUE)
    IN IF details_requests > 0
       THEN IF assigned_matches > 0
            THEN [status |-> "SUCCESS",
                  details |-> [api_request_found |-> TRUE, table_assigned |-> TRUE]]
            ELSE [status |-> "FAILED",
                  details |-> [api_request_found |-> TRUE,
                               table_assigned |-> FALSE,
                               failure_reason |->
                                   "Table assignment failed or status not TABLE_ASSIGNED"]]
       ELSE [status |-> "FAILED",
             details |-> [api_request_found |-> FALSE,
                          failure_reason |-> "No getTournamentDetails API request found"]]

\* Variant: the connection-failed marker is examined before the connected marker.
Athena_analyze_phase3_FailedFirst(log_content, registration_id) ==
    LET socket_attempts ==
            findall(<<SOCKET_URL, RegistrationIdAttr(registration_id)>>,
                    log_content, FALSE)
        connected_matches ==
            findall(<<SOCKET_CONNECTED, RegistrationIdAttr(registration_id)>>,
                    log_content, FALSE)
        failed_matches ==
            findall(<<SOCKET_FAILED, RegistrationIdAttr(registration_id)>>,
                    log_content, FALSE)
    IN IF socket_attempts > 0
       THEN IF failed_matches > 0
            THEN [status |-> "FAILED",
                  details |-> [connection_attempt_found |-> TRUE,
                               connection_successful |-> FALSE,
                               failure_reason |-> "Socket connection explicitly failed"]]
            ELSE IF connected_matches > 0
            THEN [status |-> "SUCCESS",
                  details |-> [connection_attempt_found |-> TRUE,
                               connection_successful |-> TRUE]]
            ELSE [status |-> "FAILED",
                  details |-> [connection_attempt_found |-> TRUE,
                               connection_successful |-> FALSE,
                               failure_reason |->
                                   "No connection success or failure confirmation found"]]
       ELSE [status |-> "FAILED",
             details |-> [connection_attempt_found |-> FALSE,
                          failure_reason |-> "No socket connection attempt found"]]

Athena_analyze_phase3_socket_connection(log_content, registration_id) ==
    LET socket_attempts ==
            findall(<<SOCKET_URL, RegistrationIdAttr(registration_id)>>,
                    log_content, FALSE)
        connected_matches ==
            findall(<<SOCKET_CONNECTED, RegistrationIdAttr(registration_id)>>,
                    log_content, FALSE)
        failed_matches ==
            findall(<<SOCKET_FAILED, RegistrationIdAttr(registration_id)>>,
                    log_content, FALSE)
    IN IF socket_attempts > 0
       THEN IF connected_matches > 0
            THEN [status |-> "SUCCESS",
                  details |-> [connection_attempt_found |-> TRUE,
                               connection_successful |-> TRUE]]
            ELSE IF failed_matches > 0
            THEN [status |-> "FAILED",
                  details |-> [connection_attempt_found |-> TRUE,
                               connection_successful |-> FALSE,
                               failure_reason |-> "Socket connection explicitly failed"]]
            ELSE [status |-> "FAILED",
                  details |-> [connection_attempt_found |-> TRUE,
                               connection_successful |-> FALSE,
                               failure_reason |->
                                   "No connection success or failure confirmation found"]]
       ELSE [status |-> "FAILED",
             details |-> [connection_attempt_found |-> FALSE,
                          failure_reason |-> "No socket connection attempt found"]]

\* Variant: the client timer is examined before the server failure.
Athena_analyze_phase4_TimeoutFirst(log_content, registration_id) ==
    LET finding_matches ==
            findall(<<SOCKET_EVENT, RegistrationIdAttr(registration_id),
                      STATE_FINDING>>, log_content, TRUE)
        failed_matches ==
            findall(<<SOCKET_EVENT, RegistrationIdAttr(registration_id),
                      EN_MATCH_MAKING_FAILED>>, log_content, TRUE)
        timeout_matches == findall(<<TIMER_EXPIRED>>, log_content, FALSE)
        success_matches ==
            findall(<<SOCKET_EVENT, RegistrationIdAttr(registration_id),
                      EN_ROUND_STARTING>>, log_content, TRUE)
    IN IF finding_matches > 0
       THEN IF success_matches > 0
            THEN [status |-> "SUCCESS",
                  details |-> [entered_queue |-> TRUE, outcome |-> "SUCCESSFUL_MATCH"],
                  failure_point |-> "NO_FAILURE",
                  failure_type |-> "SUCCESS"]
            ELSE IF timeout_matches > 0
            THEN [status |-> "FAILED",
                  details |-> [entered_queue |-> TRUE, outcome |-> "CLIENT_SIDE_TIMEOUT"],
                  failure_point |-> "SERVER_UNRESPONSIVE",
                  failure_type |-> "CLIENT_SIDE_TIMEOUT"]
            ELSE IF failed_matches > 0
            THEN [status |-> "FAILED",
                  details |-> [entered_queue |-> TRUE, outcome |-> "SERVER_SIDE_FAILURE"],
                  failure_point |-> "MATCHMAKING_LOGIC",
                  failure_type |-> "SERVER_SIDE_MATCHMAKING_FAILURE"]
            ELSE [status |-> "FAILED",
                  details |-> [entered_queue |-> TRUE, outcome |-> "UNKNOWN_FAILURE"],
                  failure_point |-> "MATCHMAKING_UNKNOWN",
                  failure_type |-> "UNKNOWN_MATCHMAKING_FAILURE"]
       ELSE [status |-> "FAILED",
             details |-> [entered_queue |-> FALSE],
             failure_point |-> "QUEUE_ENTRY",
             failure_type |-> "QUEUE_ENTRY_FAILURE"]

\* Variant: a round-starting event counts without the queue entry.
Athena_analyze_phase4_OutcomeWithoutQueue(log_content, registration_id) ==
    LET finding_matches ==
            findall(<<SOCKET_EVENT, RegistrationIdAttr(registration_id),
                      STATE_FINDING>>, log_content, TRUE)
        failed_matches ==
            findall(<<SOCKET_EVENT, RegistrationIdAttr(registration_id),
                      EN_MATCH_MAKING_FAILED>>, log_content, TRUE)
        timeout_matches == findall(<<TIMER_EXPIRED>>, log_content, FALSE)
        success_matches ==
            findall(<<SOCKET_EVENT, RegistrationIdAttr(registration_id),
                      EN_ROUND_STARTING>>, log_content, TRUE)
    IN IF success_matches > 0
       THEN [status |-> "SUCCESS",
             details |-> [entered_queue |-> finding_matches > 0,
                          outcome |-> "SUCCESSFUL_MATCH"],
             failure_point |-> "NO_FAILURE",
             failure_type |-> "SUCCESS"]
       ELSE IF finding_matches > 0
       THEN IF failed_matches > 0
            THEN [status |-> "FAILED",
                  details |-> [entered_queue |-> TRUE, outcome |-> "SERVER_SIDE_FAILURE"],
                  failure_point |-> "MATCHMAKING_LOGIC",
                  failure_type |-> "SERVER_SIDE_MATCHMAKING_FAILURE"]
            ELSE IF timeout_matches > 0
            THEN [status |-> "FAILED",
                  details |-> [entered_queue |-> TRUE, outcome |-> "CLIENT_SIDE_TIMEOUT"],
                  failure_point |-> "SERVER_UNRESPONSIVE",
                  failure_type |-> "CLIENT_SIDE_TIMEOUT"]
            ELSE [status |-> "FAILED",
                  details |-> [entered_queue |-> TRUE, outcome |-> "UNKNOWN_FAILURE"],
                  failure_point |-> "MATCHMAKING_UNKNOWN",
                  failure_type |-> "UNKNOWN_MATCHMAKING_FAILURE"]
       ELSE [status |-> "FAILED",
             details |-> [entered_queue |-> FALSE],
             failure_point |-> "QUEUE_ENTRY",
             failure_type |-> "QUEUE_ENTRY_FAILURE"]

Athena_analyze_phase4_matchmaking_lifecycle(log_content, registration_id) ==
    LET finding_matches ==
            findall(<<SOCKET_EVENT, RegistrationIdAttr(registration_id),
                      STATE_FINDING>>, log_content, TRUE)
        failed_matches ==
            findall(<<SOCKET_EVENT, RegistrationIdAttr(registration_id),
                      EN_MATCH_MAKING_FAILED>>, log_content, TRUE)
        timeout_matches == findall(<<TIMER_EXPIRED>>, log_content, FALSE)
        success_matches ==
            findall(<<SOCKET_EVENT, RegistrationIdAttr(registration_id),
                      EN_ROUND_STARTING>>, log_content, TRUE)
    IN IF finding_matches > 0
       THEN IF success_matches > 0
            THEN [status |-> "SUCCESS",
                  details |-> [entered_queue |-> TRUE, outcome |-> "SUCCESSFUL_MATCH"],
                  failure_point |-> "NO_FAILURE",
                  failure_type |-> "SUCCESS"]
            ELSE IF failed_matches > 0
            THEN [status |-> "FAILED",
                  details |-> [entered_queue |-> TRUE, outcome |-> "SERVER_SIDE_FAILURE"],
                  failure_point |-> "MATCHMAKING_LOGIC",
                  failure_type |-> "SERVER_SIDE_MATCHMAKING_FAILURE"]
            ELSE IF timeout_matches > 0
            THEN [status |-> "FAILED",
                  details |-> [entered_queue |-> TRUE, outcome |-> "CLIENT_SIDE_TIMEOUT"],
                  failure_point |-> "SERVER_UNRESPONSIVE",
                  failure_type |-> "CLIENT_SIDE_TIMEOUT"]
            ELSE [status |-> "FAILED",
                  details |-> [entered_queue |-> TRUE, outcome |-> "UNKNOWN_FAILURE"],
                  failure_point |-> "MATCHMAKING_UNKNOWN",
                  failure_type |-> "UNKNOWN_MATCHMAKING_FAILURE"]
       ELSE [status |-> "FAILED",
             details |-> [entered_queue |-> FALSE],
             failure_point |-> "QUEUE_ENTRY",
             failure_type |-> "QUEUE_ENTRY_FAILURE"]

(***************************************************************************)
(* automated_matchmaking_analyzer.py: stage evaluators                     *)
(***************************************************************************)
AWS_analyze_phase1_registration(log_content, registration_id) ==
    LET register_requests == findall(<<REGISTER_REQUEST>>, log_content, FALSE)
        success_matches ==
            findall(<<REGISTER_SUCCESS, RegistrationIdAttr(registration_id)>>,
                    log_content, TRUE)
    IN IF register_requests > 0
       THEN IF success_matches > 0
            THEN [status |-> "SUCCESS",
                  details |-> [api_request_found |-> TRUE,
                               request_count |-> register_requests,
                               api_success_found |-> TRUE]]
            ELSE [status |-> "FAILED",
                  details |-> [api_request_found |-> TRUE,
                               request_count |-> register_requests,
                               api_success_found |-> FALSE,
                               failure_reason |->
                                   "Registration API call failed or registrationId not generated"]]
       ELSE [status |-> "FAILED",
             details |-> [api_request_found |-> FALSE,
                          failure_reason |-> "No registration API request found"]]

AWS_analyze_phase2_table_assignment(log_content, registration_id) ==
    LET details_requests ==
            findall(<<DETAILS_REQUEST, RegistrationIdAttr(registration_id)>>,
                    log_content, TRUE)
        assigned_matches ==
            findall(<<DETAILS_SUCCESS, RegistrationIdAttr(registration_id),
                      TABLE_ASSIGNED>>, log_content, TRUE)
    IN IF details_requests > 0
       THEN IF assigned_matches > 0
            THEN [status |-> "SUCCESS",
                  details |-> [api_request_found |-> TRUE, table_assigned |-> TRUE]]
            ELSE [status |-> "FAILED",
                  details |-> [api_request_found |-> TRUE,
                               table_assigned |-> FALSE,
                               failure_reason |->
                                   "Table assignment failed or status not TABLE_ASSIGNED"]]
       ELSE [status |-> "FAILED",
             details |-> [api_request_found |-> FALSE,
                          failure_reason |-> "No getTournamentDetails API request found"]]

AWS_analyze_phase3_socket_connection(log_content, registration_id) ==
    LET socket_attempts ==
            findall(<<SOCKET_URL, RegistrationIdAttr(registration_id)>>,
                    log_content, FALSE)
        connected_matches ==
            findall(<<SOCKET_CONNECTED, RegistrationIdAttr(registration_id)>>,
                    log_content, FALSE)
        failed_matches ==
            findall(<<SOCKET_FAILED, RegistrationIdAttr(registration_id)>>,
                    log_content, FALSE)
    IN IF socket_attempts > 0
       THEN IF connected_matches > 0
            THEN [status |-> "SUCCESS",
                  details |-> [connection_attempt_found |-> TRUE,
                               connection_successful |-> TRUE,
                               connection_count |-> connected_matches]]
            ELSE IF failed_matches > 0
            THEN [status |-> "FAILED",
                  details |-> [connection_attempt_found |-> TRUE,
                               connection_successful |-> FALSE,
                               failure_reason |-> "Socket connection explicitly failed"]]
            ELSE [status |-> "FAILED",
                  details |-> [connection_attempt_found |-> TRUE,
                               connection_successful |-> FALSE,
                               failure_reason |->
                                   "No connection success or failure confirmation found"]]
       ELSE [status |-> "FAILED",
             details |-> [connection_attempt_found |-> FALSE,
                          failure_reason |-> "No socket connection attempt found"]]

AWS_analyze_phase4_matchmaking_lifecycle(log_content, registration_id) ==
    LET finding_matches ==
            findall(<<SOCKET_EVENT, RegistrationIdAttr(registration_id),
                      STATE_FINDING>>, log_content, TRUE)
        failed_matches ==
            findall(<<SOCKET_EVENT, RegistrationIdAttr(registration_id),
                      EN_MATCH_MAKING_FAILED>>, log_content, TRUE)
        timeout_matches == findall(<<TIMER_EXPIRED>>, log_content, FALSE)
        success_matches ==
            findall(<<SOCKET_EVENT, RegistrationIdAttr(registration_id),
                      EN_ROUND_STARTING>>, log_content, TRUE)
    IN IF finding_matches > 0
       THEN IF success_matches > 0
            THEN [status |-> "SUCCESS",
                  details |-> [entered_queue |-> TRUE, outcome |-> "SUCCESSFUL_MATCH",
                               round_started |-> TRUE],
                  failure_point |-> "NO_FAILURE",
                  failure_type |-> "SUCCESS"]
            ELSE IF failed_matches > 0
            THEN [status |-> "FAILED",
                  details |-> [entered_queue |-> TRUE, outcome |-> "SERVER_SIDE_FAILURE",
                               match_making_failed |-> TRUE],
                  failure_point |-> "MATCHMAKING_LOGIC",
                  failure_type |-> "SERVER_SIDE_MATCHMAKING_FAILURE"]
            ELSE IF timeout_matches > 0
            THEN [status |-> "FAILED",
                  details |-> [entered_queue |-> TRUE, outcome |-> "CLIENT_SIDE_TIMEOUT",
                               client_timeout |-> TRUE],
                  failure_point |-> "SERVER_UNRESPONSIVE",
                  failure_type |-> "CLIENT_SIDE_TIMEOUT"]
            ELSE [status |-> "FAILED",
                  details |-> [entered_queue |-> TRUE, outcome |-> "UNKNOWN_FAILURE"],
                  failure_point |-> "MATCHMAKING_UNKNOWN",
                  failure_type |-> "UNKNOWN_MATCHMAKING_FAILURE"]
       ELSE [status |-> "FAILED",
             details |-> [entered_queue |-> FALSE,
                          failure_reason |-> "User never entered FINDING state"],
             failure_point |-> "QUEUE_ENTRY",
             failure_type |-> "QUEUE_ENTRY_FAILURE"]

(***************************************************************************)
(* Analyzer_from_metabase_to_AWS.py: stage evaluators                      *)
(***************************************************************************)
Metabase_analyze_phase1_registration(log_content, registration_id) ==
    LET register_requests == findall(<<REGISTER_REQUEST>>, log_content, FALSE)
        success_matches ==
            findall(<<REGISTER_SUCCESS, RegistrationIdAttr(registration_id)>>,
                    log_content, TRUE)
    IN IF register_requests > 0
       THEN IF success_matches > 0
            THEN [status |-> "SUCCESS",
                  details |-> [api_request_found |-> TRUE,
                               request_count |-> register_requests,
                               api_success_found |-> TRUE]]
            ELSE [status |-> "FAILED",
                  details |-> [api_request_found |-> TRUE,
                               request_count |-> register_requests,
                               api_success_found |-> FALSE,
                               failure_reason |->
                                   "Registration API call failed or registrationId not generated"]]
       ELSE [status |-> "FAILED",
             details |-> [api_request_found |-> FALSE,
                          failure_reason |-> "No registration API request found"]]

Metabase_analyze_phase2_table_assignment(log_content, registration_id) ==
    LET details_requests ==
            findall(<<DETAILS_REQUEST, RegistrationIdAttr(registration_id)>>,
                    log_content, TRUE)
        assigned_matches ==
            findall(<<DETAILS_SUCCESS, RegistrationIdAttr(registration_id),
                      TABLE_ASSIGNED>>, log_content, TRUE)
    IN IF details_requests > 0
       THEN IF assigned_matches > 0
            THEN [status |-> "SUCCESS",
                  details |-> [api_request_found |-> TRUE, table_assigned |-> TRUE]]
            ELSE [status |-> "FAILED",
                  details |-> [api_request_found |-> TRUE,
                               table_assigned |-> FALSE,
                               failure_reason |->
                                   "Table assignment failed or status not TABLE_ASSIGNED"]]
       ELSE [status |-> "FAILED",
             details |-> [api_request_found |-> FALSE,
                          failure_reason |-> "No getTournamentDetails API request found"]]

Metabase_analyze_phase3_socket_connection(log_content, registration_id) ==
    LET socket_attempts ==
            findall(<<SOCKET_URL, RegistrationIdAttr(registration_id)>>,
                    log_content, FALSE)
        connected_matches ==
            findall(<<SOCKET_CONNECTED, RegistrationIdAttr(registration_id)>>,
                    log_content, FALSE)
        failed_matches ==
            findall(<<SOCKET_FAILED, RegistrationIdAttr(registration_id)>>,
                    log_content, FALSE)
    IN IF socket_attempts > 0
       THEN IF connected_matches > 0
            THEN [status |-> "SUCCESS",
                  details |-> [connection_attempt_found |-> TRUE,
                               connection_successful |-> TRUE]]
            ELSE IF failed_matches > 0
            THEN [status |-> "FAILED",
                  details |-> [connection_attempt_found |-> TRUE,
                               connection_successful |-> FALSE,
                               failure_reason |-> "Socket connection explicitly failed"]]
            ELSE [status |-> "FAILED",
                  details |-> [connection_attempt_found |-> TRUE,
                               connection_successful |-> FALSE,
                               failure_reason |->
                                   "No connection success or failure confirmation found"]]
       ELSE [status |-> "FAILED",
             details |-> [connection_attempt_found |-> FALSE,
                          failure_reason |-> "No socket connection attempt found"]]

Metabase_analyze_phase4_matchmaking_lifecycle(log_content, registration_id) ==
    LET finding_matches ==
            findall(<<SOCKET_EVENT, RegistrationIdAttr(registration_id),
                      STATE_FINDING>>, log_content, TRUE)
        failed_matches ==
            findall(<<SOCKET_EVENT, RegistrationIdAttr(registration_id),
                      EN_MATCH_MAKING_FAILED>>, log_content, TRUE)
        timeout_matches == findall(<<TIMER_EXPIRED>>, log_content, FALSE)
        success_matches ==
            findall(<<SOCKET_EVENT, RegistrationIdAttr(registration_id),
                      EN_ROUND_STARTING>>, log_content, TRUE)
    IN IF finding_matches > 0
       THEN IF success_matches > 0
            THEN [status |-> "SUCCESS",
                  details |-> [entered_queue |-> TRUE, outcome |-> "SUCCESSFUL_MATCH"],
                  failure_point |-> "NO_FAILURE",
                  failure_type |-> "SUCCESS"]
            ELSE IF failed_matches > 0
            THEN [status |-> "FAILED",
                  details |-> [entered_queue |-> TRUE, outcome |-> "SERVER_SIDE_FAILURE"],
                  failure_point |-> "MATCHMAKING_LOGIC",
                  failure_type |-> "SERVER_SIDE_MATCHMAKING_FAILURE"]
            ELSE IF timeout_matches > 0
            THEN [status |-> "FAILED",
                  details |-> [entered_queue |-> TRUE, outcome |-> "CLIENT_SIDE_TIMEOUT"],
                  failure_point |-> "SERVER_UNRESPONSIVE",
                  failure_type |-> "CLIENT_SIDE_TIMEOUT"]
            ELSE [status |-> "FAILED",
                  details |-> [entered_queue |-> TRUE, outcome |-> "UNKNOWN_FAILURE"],
                  failure_point |-> "MATCHMAKING_UNKNOWN",
                  failure_type |-> "UNKNOWN_MATCHMAKING_FAILURE"]
       ELSE [status |-> "FAILED",
             details |-> [entered_queue |-> FALSE],
             failure_point |-> "QUEUE_ENTRY",
             failure_type |-> "QUEUE_ENTRY_FAILURE"]

(***************************************************************************)
(* Analyzer_Automated.py: the classifier                                   *)
(***************************************************************************)
EmptyDict == [k \in {} |-> TRUE]
UnknownPhase == [status |-> "UNKNOWN", details |-> EmptyDict]
FileNotFound == "No such file or directory"

\* One entry of all_failure_points.
FailurePoint(phase, type, reason) == [phase |-> phase, type |-> type, reason |-> reason]

\* Variant: only the first failed stage is listed.
Athena_all_failure_points_FirstOnly(phase1_result, phase2_result, phase3_result, phase4_result) ==
    IF phase1_result.status = "FAILED"
    THEN <<FailurePoint("REGISTRATION", "REGISTRATION_FAILURE",
                        Get(phase1_result.details, "failure_reason",
                            "Unknown registration failure"))>>
    ELSE IF phase2_result.status = "FAILED"
    THEN <<FailurePoint("TABLE_ASSIGNMENT", "ALLOCATION_FAILURE",
                        Get(phase2_result.details, "failure_reason",
                            "Unknown table assignment failure"))>>
    ELSE IF phase3_result.status = "FAILED"
    THEN <<FailurePoint("SOCKET_CONNECTION", "NETWORK_FAILURE",
                        Get(phase3_result.details, "failure_reason",
                            "Unknown socket connection failure"))>>
    ELSE IF phase4_result.status = "FAILED"
    THEN <<FailurePoint(Get(phase4_result, "failure_point", "MATCHMAKING_UNKNOWN"),
                        Get(phase4_result, "failure_type", "UNKNOWN_MATCHMAKING_FAILURE"),
                        Get(phase4_result.details, "failure_reason",
                            "Unknown matchmaking failure"))>>
    ELSE <<>>

Athena_all_failure_points(phase1_result, phase2_result, phase3_result, phase4_result) ==
    (IF phase1_result.status = "FAILED"
     THEN <<FailurePoint("REGISTRATION", "REGISTRATION_FAILURE",
                         Get(phase1_result.details, "failure_reason",
                             "Unknown registration failure"))>>
     ELSE <<>>)
    \o (IF phase2_result.status = "FAILED"
        THEN <<FailurePoint("TABLE_ASSIGNMENT", "ALLOCATION_FAILURE",
                            Get(phase2_result.details, "failure_reason",
                                "Unknown table assignment failure"))>>
        ELSE <<>>)
    \o (IF phase3_result.status = "FAILED"
        THEN <<FailurePoint("SOCKET_CONNECTION", "NETWORK_FAILURE",
                            Get(phase3_result.details, "failure_reason",
                                "Unknown socket connection failure"))>>
        ELSE <<>>)
    \o (IF phase4_result.status = "FAILED"
        THEN <<FailurePoint(Get(phase4_result, "failure_point", "MATCHMAKING_UNKNOWN"),
                            Get(phase4_result, "failure_type", "UNKNOWN_MATCHMAKING_FAILURE"),
                            Get(phase4_result.details, "failure_reason",
                                "Unknown matchmaking failure"))>>
        ELSE <<>>)

\* Variant: the table assignment is examined before the registration.
Athena_primary_TableFirst(phase1_result, phase2_result, phase3_result, phase4_result) ==
    IF phase2_result.status = "FAILED"
    THEN <<"TABLE_ASSIGNMENT", "ALLOCATION_FAILURE">>
    ELSE IF phase1_result.status = "FAILED"
    THEN <<"REGISTRATION", "REGISTRATION_FAILURE">>
    ELSE IF phase3_result.status = "FAILED"
    THEN <<"SOCKET_CONNECTION", "NETWORK_FAILURE">>
    ELSE IF phase4_result.status = "FAILED"
    THEN <<Get(phase4_result, "failure_point", "MATCHMAKING_UNKNOWN"),
           Get(phase4_result, "failure_type", "UNKNOWN_MATCHMAKING_FAILURE")>>
    ELSE <<"NO_FAILURE", "SUCCESS">>

\* Variant: the socket connection stage is not examined.
Athena_primary_SkipSocket(phase1_result, phase2_result, phase3_result, phase4_result) ==
    IF phase1_result.status = "FAILED"
    THEN <<"REGISTRATION", "REGISTRATION_FAILURE">>
    ELSE IF phase2_result.status = "FAILED"
    THEN <<"TABLE_ASSIGNMENT", "ALLOCATION_FAILURE">>
    ELSE IF phase4_result.status = "FAILED"
    THEN <<Get(phase4_result, "failure_point", "MATCHMAKING_UNKNOWN"),
           Get(phase4_result, "failure_type", "UNKNOWN_MATCHMAKING_FAILURE")>>
    ELSE <<"NO_FAILURE", "SUCCESS">>

\* Variant: the last failed stage is the primary failure.
Athena_primary_LastFailure(phase1_result, phase2_result, phase3_result, phase4_result) ==
    IF phase4_result.status = "FAILED" /\ phase1_result.status # "FAILED"
    THEN <<Get(phase4_result, "failure_point", "MATCHMAKING_UNKNOWN"),
           Get(phase4_result, "failure_type", "UNKNOWN_MATCHMAKING_FAILURE")>>
    ELSE IF phase3_result.status = "FAILED" /\ phase1_result.status # "FAILED"
    THEN <<"SOCKET_CONNECTION", "NETWORK_FAILURE">>
    ELSE IF phase2_result.status = "FAILED" /\ phase1_result.status # "FAILED"
    THEN <<"TABLE_ASSIGNMENT", "ALLOCATION_FAILURE">>
    ELSE IF phase1_result.status = "FAILED"
    THEN <<"REGISTRATION", "REGISTRATION_FAILURE">>
    ELSE <<"NO_FAILURE", "SUCCESS">>

\* Primary failure point and type: the first chronological failure.
Athena_primary(phase1_result, phase2_result, phase3_result, phase4_result) ==
    IF phase1_result.status = "FAILED"
    THEN <<"REGISTRATION", "REGISTRATION_FAILURE">>
    ELSE IF phase2_result.status = "FAILED"
    THEN <<"TABLE_ASSIGNMENT", "ALLOCATION_FAILURE">>
    ELSE IF phase3_result.status = "FAILED"
    THEN <<"SOCKET_CONNECTION", "NETWORK_FAILURE">>
    ELSE IF phase4_result.status = "FAILED"
    THEN <<Get(phase4_result, "failure_point", "MATCHMAKING_UNKNOWN"),
           Get(phase4_result, "failure_type", "UNKNOWN_MATCHMAKING_FAILURE")>>
    ELSE <<"NO_FAILURE", "SUCCESS">>

Athena_analyze_single_log_with_cursor_rule(log_file, registration_id, now) ==
    LET initial ==
            [registration_id |-> registration_id,
             analysis_timestamp |-> now,
             phases |-> [phase1_registration |-> UnknownPhase,
                         phase2_table_assignment |-> UnknownPhase,
                         phase3_socket_connection |-> UnknownPhase,
                         phase4_matchmaking_lifecycle |-> UnknownPhase],
             failure_point |-> "UNKNOWN",
             failure_type |-> "UNKNOWN",
             all_failure_points |-> <<>>,
             recommendations |-> <<>>]
        log_content == Text(log_file.lines)
        phase1_result == Athena_analyze_phase1_registration(log_content, registration_id)
        phase2_result == Athena_analyze_phase2_table_assignment(log_content, registration_id)
        phase3_result == Athena_analyze_phase3_socket_connection(log_content, registration_id)
        phase4_result == Athena_analyze_phase4_matchmaking_lifecycle(log_content, registration_id)
        primary == Athena_primary(phase1_result, phase2_result, phase3_result, phase4_result)
    IN IF ~log_file.exists
       THEN ("error" :> FileNotFound) @@ initial
       ELSE [initial EXCEPT
                !.phases = [phase1_registration |-> phase1_result,
                            phase2_table_assignment |-> phase2_result,
                            phase3_socket_connection |-> phase3_result,
                            phase4_matchmaking_lifecycle |-> phase4_result],
                !.all_failure_points =
                    Athena_all_failure_points(phase1_result, phase2_result,
                                              phase3_result, phase4_result),
                !.failure_point = primary[1],
                !.failure_type = primary[2]]

(***************************************************************************)
(* automated_matchmaking_analyzer.py: the classifier                       *)
(***************************************************************************)
\* Variant: the recommendations of the previous call are kept in the list.
AWS_generate_recommendations_Accumulating(failure_point) ==
    (IF "recommendations" \in DOMAIN analysis_result
     THEN analysis_result.recommendations ELSE <<>>)
    \o (IF failure_point = "REGISTRATION"
        THEN <<"Check user wallet balance and session validity">>
        ELSE <<"Investigate">>)

AWS_generate_recommendations(failure_point) ==
    IF failure_point = "REGISTRATION"
    THEN <<"Check user wallet balance and session validity",
           "Verify tournament availability and user eligibility",
           "Review registration API error responses">>
    ELSE IF failure_point = "TABLE_ASSIGNMENT"
    THEN <<"Investigate game server allocation service health",
           "Check available game server pool capacity",
           "Review backend infrastructure scaling">>
    ELSE IF failure_point = "SOCKET_CONNECTION"
    THEN <<"Test network connectivity to game servers",
           "Check specific game server instance health",
           "Verify firewall and load balancer configurations">>
    ELSE IF failure_point = "MATCHMAKING_LOGIC"
    THEN <<"Investigate game server matchmaking algorithm",
           "Check for race conditions or deadlocks",
           "Review player liquidity for the time period",
           "Examine specific pod IP">>
    ELSE IF failure_point = "SERVER_UNRESPONSIVE"
    THEN <<"Check game server responsiveness and health",
           "Investigate potential server crashes or hangs",
           "Review server resource utilization">>
    ELSE <<>>

\* Variant: every stage evaluator runs, whatever the earlier stages returned.
AWS_analyze_log_AllStages(log_file, registration_id, now) ==
    LET initial ==
            [registration_id |-> registration_id,
             analysis_timestamp |-> now,
             phases |-> [phase1_registration |-> UnknownPhase,
                         phase2_table_assignment |-> UnknownPhase,
                         phase3_socket_connection |-> UnknownPhase,
                         phase4_matchmaking_lifecycle |-> UnknownPhase],
             failure_point |-> "UNKNOWN",
             failure_type |-> "UNKNOWN",
             recommendations |-> <<>>]
        log_content == Text(log_file.lines)
        phase1_result == AWS_analyze_phase1_registration(log_content, registration_id)
        phase2_result == AWS_analyze_phase2_table_assignment(log_content, registration_id)
        phase3_result == AWS_analyze_phase3_socket_connection(log_content, registration_id)
        phase4_result == AWS_analyze_phase4_matchmaking_lifecycle(log_content, registration_id)
        after1 == [initial EXCEPT !.phases.phase1_registration = phase1_result]
        after2 == [after1 EXCEPT !.phases.phase2_table_assignment = phase2_result]
        after3 == [after2 EXCEPT !.phases.phase3_socket_connection = phase3_result]
        after4 == [after3 EXCEPT !.phases.phase4_matchmaking_lifecycle = phase4_result]
        analysed ==
            IF phase1_result.status = "SUCCESS"
            THEN IF phase2_result.status = "SUCCESS"
                 THEN IF phase3_result.status = "SUCCESS"
                      THEN [after4 EXCEPT
                               !.failure_point = Get(phase4_result, "failure_point", "UNKNOWN"),
                               !.failure_type = Get(phase4_result, "failure_type", "UNKNOWN")]
                      ELSE [after4 EXCEPT !.failure_point = "SOCKET_CONNECTION",
                                          !.failure_type = "NETWORK_FAILURE"]
                 ELSE [after4 EXCEPT !.failure_point = "TABLE_ASSIGNMENT",
                                     !.failure_type = "ALLOCATION_FAILURE"]
            ELSE [after4 EXCEPT !.failure_point = "REGISTRATION",
                                !.failure_type = "REGISTRATION_FAILURE"]
    IN IF ~log_file.exists
       THEN ("error" :> FileNotFound) @@ initial
       ELSE [analysed EXCEPT
                !.recommendations = AWS_generate_recommendations(analysed.failure_point)]

AWS_analyze_log_with_cursor_rule(log_file, registration_id, now) ==
    LET initial ==
            [registration_id |-> registration_id,
             analysis_timestamp |-> now,
             phases |-> [phase1_registration |-> UnknownPhase,
                         phase2_table_assignment |-> UnknownPhase,
                         phase3_socket_connection |-> UnknownPhase,
                         phase4_matchmaking_lifecycle |-> UnknownPhase],
             failure_point |-> "UNKNOWN",
             failure_type |-> "UNKNOWN",
             recommendations |-> <<>>]
        log_content == Text(log_file.lines)
        phase1_result == AWS_analyze_phase1_registration(log_content, registration_id)
        phase2_result == AWS_analyze_phase2_table_assignment(log_content, registration_id)
        phase3_result == AWS_analyze_phase3_socket_connection(log_content, registration_id)
        phase4_result == AWS_analyze_phase4_matchmaking_lifecycle(log_content, registration_id)
        after1 == [initial EXCEPT !.phases.phase1_registration = phase1_result]
        after2 == [after1 EXCEPT !.phases.phase2_table_assignment = phase2_result]
        after3 == [after2 EXCEPT !.phases.phase3_socket_connection = phase3_result]
        after4 == [after3 EXCEPT !.phases.phase4_matchmaking_lifecycle = phase4_result]
        analysed ==
            IF phase1_result.status = "SUCCESS"
            THEN IF phase2_result.status = "SUCCESS"
                 THEN IF phase3_result.status = "SUCCESS"
                      THEN [after4 EXCEPT
                               !.failure_point = Get(phase4_result, "failure_point", "UNKNOWN"),
                               !.failure_type = Get(phase4_result, "failure_type", "UNKNOWN")]
                      ELSE [after3 EXCEPT !.failure_point = "SOCKET_CONNECTION",
                                          !.failure_type = "NETWORK_FAILURE"]
                 ELSE [after2 EXCEPT !.failure_point = "TABLE_ASSIGNMENT",
                                     !.failure_type = "ALLOCATION_FAILURE"]
            ELSE [after1 EXCEPT !.failure_point = "REGISTRATION",
                                !.failure_type = "REGISTRATION_FAILURE"]
    IN IF ~log_file.exists
       THEN ("error" :> FileNotFound) @@ initial
       ELSE [analysed EXCEPT
                !.recommendations = AWS_generate_recommendations(analysed.failure_point)]

(***************************************************************************)
(* Analyzer_from_metabase_to_AWS.py: the classifier                        *)
(***************************************************************************)
Metabase_analyze_single_log_with_cursor_rule(log_file, registration_id, now) ==
    LET initial ==
            [registration_id |-> registration_id,
             analysis_timestamp |-> now,
             phases |-> [phase1_registration |-> UnknownPhase,
                         phase2_table_assignment |-> UnknownPhase,
                         phase3_socket_connection |-> UnknownPhase,
                         phase4_matchmaking_lifecycle |-> UnknownPhase],
             failure_point |-> "UNKNOWN",
             failure_type |-> "UNKNOWN",
             recommendations |-> <<>>]
        log_content == Text(log_file.lines)
        phase1_result == Metabase_analyze_phase1_registration(log_content, registration_id)
        phase2_result == Metabase_analyze_phase2_table_assignment(log_content, registration_id)
        phase3_result == Metabase_analyze_phase3_socket_connection(log_content, registration_id)
        phase4_result == Metabase_analyze_phase4_matchmaking_lifecycle(log_content, registration_id)
        after1 == [initial EXCEPT !.phases.phase1_registration = phase1_result]
        after2 == [after1 EXCEPT !.phases.phase2_table_assignment = phase2_result]
        after3 == [after2 EXCEPT !.phases.phase3_socket_connection = phase3_result]
        after4 == [after3 EXCEPT !.phases.phase4_matchmaking_lifecycle = phase4_result]
    IN IF ~log_file.exists
       THEN ("error" :> FileNotFound) @@ initial
       ELSE IF phase1_result.status = "SUCCESS"
       THEN IF phase2_result.status = "SUCCESS"
            THEN IF phase3_result.status = "SUCCESS"
                 THEN [after4 EXCEPT
                          !.failure_point =
                              Get(phase4_result, "failure_point", "MATCHMAKING_UNKNOWN"),
                          !.failure_type =
                              Get(phase4_result, "failure_type", "UNKNOWN_MATCHMAKING_FAILURE")]
                 ELSE [after3 EXCEPT !.failure_point = "SOCKET_CONNECTION",
                                     !.failure_type = "NETWORK_FAILURE"]
            ELSE [after2 EXCEPT !.failure_point = "TABLE_ASSIGNMENT",
                                !.failure_type = "ALLOCATION_FAILURE"]
       ELSE [after1 EXCEPT !.failure_point = "REGISTRATION",
                           !.failure_type = "REGISTRATION_FAILURE"]

\* The classifier of the script that is run.
Classify(script, log_file, registration_id, now) ==
    CASE script = "Athena" ->
            Athena_analyze_single_log_with_cursor_rule(log_file, registration_id, now)
      [] script = "AWS" ->
            AWS_analyze_log_with_cursor_rule(log_file, registration_id, now)
      [] script = "Metabase" ->
            Metabase_analyze_single_log_with_cursor_rule(log_file, registration_id, now)

(***************************************************************************)
(* matchmaking_analyzer.py: the game type and status of a failed game      *)
(***************************************************************************)
\* A max_seats cell: a number, or NaN when the cell is empty.
Seats(n) == [nan |-> FALSE, value |-> n]
NaN == [nan |-> TRUE]

\* max_seats == n
Equals(max_seats, n) == ~max_seats.nan /\ max_seats.value = n

\* The third element of the returned tuple: a fixed text, or an f-string
\* and the value it formats.
Category(text) == [text |-> text]
CategoryOf(text, value) == [text |-> text, value |-> value]

PlayerCounts == (0 - MaxCount)..MaxCount
SeatValues == {Seats(n) : n \in (0 - MaxSeats)..MaxSeats} \cup {NaN}

\* Variant: in a 2-player game every count from 2 up is FISHY.
detect_game_type_and_status_FishyFromTwo(player_count, max_seats) ==
    IF Equals(max_seats, 2)
    THEN IF player_count = 1
         THEN <<"2-PLAYER", "NORMAL", Category("Single player timeout (expected)")>>
         ELSE IF player_count >= 2
         THEN <<"2-PLAYER", "FISHY", Category("Both players present but failed")>>
         ELSE <<"2-PLAYER", "SUSPICIOUS",
                CategoryOf("System bug - {player_count} players in 2P game", player_count)>>
    ELSE IF Equals(max_seats, 6)
    THEN IF player_count <= 2
         THEN <<"6-PLAYER", "NORMAL",
                CategoryOf("Insufficient players ({player_count}/6) - need 3+ to play",
                           player_count)>>
         ELSE IF player_count \in {3, 4, 5, 6}
         THEN <<"6-PLAYER", "FISHY",
                CategoryOf("Sufficient players ({player_count}/6) but failed", player_count)>>
         ELSE <<"6-PLAYER", "SUSPICIOUS",
                CategoryOf("System bug - {player_count} players in 6P game", player_count)>>
    ELSE <<"UNKNOWN", "SUSPICIOUS", CategoryOf("Unknown max_seats: {max_seats}", max_seats)>>

\* Variant: a 6-player game is FISHY only with all six seats taken.
detect_game_type_and_status_SixNeedsSix(player_count, max_seats) ==
    IF Equals(max_seats, 2)
    THEN IF player_count = 1
         THEN <<"2-PLAYER", "NORMAL", Category("Single player timeout (expected)")>>
         ELSE IF player_count = 2
         THEN <<"2-PLAYER", "FISHY", Category("Both players present but failed")>>
         ELSE <<"2-PLAYER", "SUSPICIOUS",
                CategoryOf("System bug - {player_count} players in 2P game", player_count)>>
    ELSE IF Equals(max_seats, 6)
    THEN IF player_count <= 5
         THEN <<"6-PLAYER", "NORMAL",
                CategoryOf("Insufficient players ({player_count}/6) - need 3+ to play",
                           player_count)>>
         ELSE IF player_count \in {6}
         THEN <<"6-PLAYER", "FISHY",
                CategoryOf("Sufficient players ({player_count}/6) but failed", player_count)>>
         ELSE <<"6-PLAYER", "SUSPICIOUS",
                CategoryOf("System bug - {player_count} players in 6P game", player_count)>>
    ELSE <<"UNKNOWN", "SUSPICIOUS", CategoryOf("Unknown max_seats: {max_seats}", max_seats)>>

\* Variant: a game of unknown max_seats with one player is taken for a 2-player game.
detect_game_type_and_status_DefaultTwoPlayer(player_count, max_seats) ==
    IF Equals(max_seats, 2)
    THEN IF player_count = 1
         THEN <<"2-PLAYER", "NORMAL", Category("Single player timeout (expected)")>>
         ELSE IF player_count = 2
         THEN <<"2-PLAYER", "FISHY", Category("Both players present but failed")>>
         ELSE <<"2-PLAYER", "SUSPICIOUS",
                CategoryOf("System bug - {player_count} players in 2P game", player_count)>>
    ELSE IF Equals(max_seats, 6)
    THEN IF player_count <= 2
         THEN <<"6-PLAYER", "NORMAL",
                CategoryOf("Insufficient players ({player_count}/6) - need 3+ to play",
                           player_count)>>
         ELSE IF player_count \in {3, 4, 5, 6}
         THEN <<"6-PLAYER", "FISHY",
                CategoryOf("Sufficient players ({player_count}/6) but failed", player_count)>>
         ELSE <<"6-PLAYER", "SUSPICIOUS",
                CategoryOf("System bug - {player_count} players in 6P game", player_count)>>
    ELSE IF player_count = 1
    THEN <<"2-PLAYER", "NORMAL", Category("Single player timeout (expected)")>>
    ELSE <<"UNKNOWN", "SUSPICIOUS", CategoryOf("Unknown max_seats: {max_seats}", max_seats)>>

detect_game_type_and_status(player_count, max_seats) ==
    IF Equals(max_seats, 2)
    THEN IF player_count = 1
         THEN <<"2-PLAYER", "NORMAL", Category("Single player timeout (expected)")>>
         ELSE IF player_count = 2
         THEN <<"2-PLAYER", "FISHY", Category("Both players present but failed")>>
         ELSE <<"2-PLAYER", "SUSPICIOUS",
                CategoryOf("System bug - {player_count} players in 2P game", player_count)>>
    ELSE IF Equals(max_seats, 6)
    THEN IF player_count <= 2
         THEN <<"6-PLAYER", "NORMAL",
                CategoryOf("Insufficient players ({player_count}/6) - need 3+ to play",
                           player_count)>>
         ELSE IF player_count \in {3, 4, 5, 6}
         THEN <<"6-PLAYER", "FISHY",
                CategoryOf("Sufficient players ({player_count}/6) but failed", player_count)>>
         ELSE <<"6-PLAYER", "SUSPICIOUS",
                CategoryOf("System bug - {player_count} players in 6P game", player_count)>>
    ELSE <<"UNKNOWN", "SUSPICIOUS", CategoryOf("Unknown max_seats: {max_seats}", max_seats)>>

NotClassified == <<>>

CapacityIdle ==
    /\ participants = 0
    /\ capacity = NaN
    /\ capacity_result = NotClassified

(***************************************************************************)
(* matchmaking_analyzer.py: the per-game analysis of the CSV file.  A row   *)
(* holds the columns the analysis reads: game_id, user_id, reason and      *)
(* max_seats.  game_id cells are never empty; an empty user_id cell is     *)
(* read as NaN.                                                            *)
(***************************************************************************)
GameIds == <<"g1", "g2">>          \* in the order groupby sorts them
UserIds == {"u1", "u2"}
NoUser == ""
Reasons == {"matchmaking-failed", "game-completed"}
RowSeats == {Seats(2), Seats(6), NaN}

Rows ==
    [game_id : {GameIds[i] : i \in DOMAIN GameIds},
     user_id : UserIds \cup {NoUser},
     reason : Reasons,
     max_seats : RowSeats]

CsvFiles == UNION {[1..n -> Rows] : n \in 0..MaxRows}

IsFailure(row) == row.reason = "matchmaking-failed"
HasUser(row) == row.user_id # NoUser
HasSeats(row) == ~row.max_seats.nan

\* groupby('game_id').agg({'user_id': 'count', 'max_seats': 'first'}):
\* count is the number of non-null cells, first the first non-null cell.
GroupRows(frame, game_id) == SelectSeq(frame, LAMBDA row : row.game_id = game_id)

AggCount(group) == Len(SelectSeq(group, HasUser))

AggFirst(group) ==
    LET valid == SelectSeq(group, HasSeats)
    IN IF valid = <<>> THEN NaN ELSE Head(valid).max_seats

game_user_counts(matchmaking_failed) ==
    LET present ==
            SelectSeq(GameIds,
                      LAMBDA g : \E i \in DOMAIN matchmaking_failed :
                                     matchmaking_failed[i].game_id = g)
    IN [i \in 1..Len(present) |->
           [game_id |-> present[i],
            user_count |-> AggCount(GroupRows(matchmaking_failed, present[i])),
            max_seats |-> AggFirst(GroupRows(matchmaking_failed, present[i]))]]

\* The list game_analysis built by analyze_generic_matchmaking_patterns.
analyze_generic_matchmaking_patterns(df) ==
    LET matchmaking_failed == SelectSeq(df, IsFailure)
        counts == game_user_counts(matchmaking_failed)
    IN [i \in 1..Len(counts) |->
           LET row == counts[i]
               detected == detect_game_type_and_status(row.user_count, row.max_seats)
           IN [game_id |-> row.game_id,
               player_count |-> row.user_count,
               max_seats |-> row.max_seats,
               game_type |-> detected[1],
               status |-> detected[2],
               description |-> detected[3]]]

CsvIdle ==
    /\ csv_file = <<>>
    /\ game_analysis = <<>>
    /\ pc = "start"

(***************************************************************************)
(* Aggregation of the classified sessions.  A Python dict keeps its keys   *)
(* in insertion order: it is a sequence of <<key, count>> items.           *)
(***************************************************************************)
Keys(d) == [i \in DOMAIN d |-> d[i][1]]
HasKey(d, key) == \E i \in DOMAIN d : d[i][1] = key
CountOf(d, key) == IF HasKey(d, key) THEN d[CHOOSE i \in DOMAIN d : d[i][1] = key][2] ELSE 0

\* d[key] = d.get(key, 0) + 1
Increment(d, key) ==
    IF HasKey(d, key)
    THEN [i \in DOMAIN d |-> IF d[i][1] = key THEN <<key, d[i][2] + 1>> ELSE d[i]]
    ELSE Append(d, <<key, 1>>)

RECURSIVE SumCounts(_)
SumCounts(d) == IF d = <<>> THEN 0 ELSE Head(d)[2] + SumCounts(Tail(d))

\* Counter(labels), in first-seen order
RECURSIVE Counter(_)
Counter(labels) ==
    IF labels = <<>> THEN <<>>
    ELSE Increment(Counter(SubSeq(labels, 1, Len(labels) - 1)), labels[Len(labels)])

\* Variant: among items of equal count the one seen last comes first.
InsertByCount_LastSeenFirst(sorted, item) ==
    LET before == SelectSeq(sorted, LAMBDA x : x[2] > item[2])
        after == SelectSeq(sorted, LAMBDA x : x[2] <= item[2])
    IN before \o <<item>> \o after

\* sorted(d.items(), key=lambda x: x[1], reverse=True): a stable sort, items
\* of equal count keep their order.
InsertByCount(sorted, item) ==
    LET before == SelectSeq(sorted, LAMBDA x : x[2] >= item[2])
        after == SelectSeq(sorted, LAMBDA x : x[2] < item[2])
    IN before \o <<item>> \o after

RECURSIVE SortedByCount(_)
SortedByCount(items) ==
    IF items = <<>> THEN <<>>
    ELSE InsertByCount(SortedByCount(SubSeq(items, 1, Len(items) - 1)), items[Len(items)])

\* (count / total) * 100, kept as a fraction
Percentage(count, total) == [num |-> count * 100, den |-> total]

(***************************************************************************)
(* The sessions of a run: log_files maps each registration id to its log   *)
(* file, registrations_df gives its app version.  The i-th session of a    *)
(* run has the id Rid(i); its log holds the lines recorded up to some      *)
(* point of its journey, or the file is missing.                           *)
(***************************************************************************)
Rid(i) == "r" \o ToString(i)
minimum_version == 448
Versions == {447, 448}
MissingFile == 0 - 1
SessionKinds == [progress : {MissingFile} \cup (0..Len(Progress)), version : Versions]
\* Analyzer_Automated.py only fetches the logs of version >= minimum_version.
TargetKinds == {kind \in SessionKinds : kind.version >= minimum_version}

SessionLog(registration_id, progress) ==
    IF progress = MissingFile THEN NoLogFile
    ELSE [exists |-> TRUE,
          lines |-> IF progress = 0 THEN <<>>
                    ELSE SubSeq(Journey(registration_id), 1, Progress[progress])]

Session(i, kind) ==
    [registration_id |-> Rid(i),
     log_file |-> SessionLog(Rid(i), kind.progress),
     version |-> kind.version]

\* The sessions of a run, from the kind of each.
LogFileDict(kinds) == [i \in DOMAIN kinds |-> Session(i, kinds[i])]

(***************************************************************************)
(* Analyzer_from_metabase_to_AWS.py: analyze_matchmaking_failures          *)
(***************************************************************************)
\* failure_point.lower(), as the words the label is made of; a word the
\* code looks for is a substring of the label exactly when it is one of them.
Lower(failure_point) ==
    CASE failure_point = "REGISTRATION" -> <<"registration">>
      [] failure_point = "TABLE_ASSIGNMENT" -> <<"table", "assignment">>
      [] failure_point = "SOCKET_CONNECTION" -> <<"socket", "connection">>
      [] failure_point = "QUEUE_ENTRY" -> <<"queue", "entry">>
      [] failure_point = "MATCHMAKING_LOGIC" -> <<"matchmaking", "logic">>
      [] failure_point = "SERVER_UNRESPONSIVE" -> <<"server", "unresponsive">>
      [] failure_point = "MATCHMAKING_UNKNOWN" -> <<"matchmaking", "unknown">>
      [] failure_point = "NO_FAILURE" -> <<"no", "failure">>
      [] OTHER -> <<"unknown">>

Contains(failure_phase, word) == \E i \in DOMAIN failure_phase : failure_phase[i] = word

Metabase_failure_category(failure_point) ==
    LET failure_phase == Lower(failure_point)
    IN IF Contains(failure_phase, "registration")
       THEN "phase1_registration_failures"
       ELSE IF Contains(failure_phase, "table") \/ Contains(failure_phase, "assignment")
       THEN "phase2_table_assignment_failures"
       ELSE IF Contains(failure_phase, "socket") \/ Contains(failure_phase, "connection")
       THEN "phase3_socket_connection_failures"
       ELSE IF Contains(failure_phase, "matchmaking")
       THEN "phase4_matchmaking_failures"
       ELSE "unknown_failures"

VersionCategory(version) ==
    IF version >= minimum_version THEN "high_version_failures" ELSE "low_version_failures"

Metabase_initial_results(sessions) ==
    [total_logs_analyzed |-> Len(sessions),
     version_analysis |-> [high_version_failures |-> <<>>, low_version_failures |-> <<>>],
     failure_categories |-> [phase1_registration_failures |-> <<>>,
                             phase2_table_assignment_failures |-> <<>>,
                             phase3_socket_connection_failures |-> <<>>,
                             phase4_matchmaking_failures |-> <<>>,
                             unknown_failures |-> <<>>],
     detailed_results |-> <<>>]

\* One pass of the loop over log_files.items().
Metabase_analyze_one(results, session, now) ==
    LET failure_analysis ==
            ("version" :> session.version)
            @@ Metabase_analyze_single_log_with_cursor_rule(
                   session.log_file, session.registration_id, now)
        version_category == VersionCategory(session.version)
        category == Metabase_failure_category(failure_analysis.failure_point)
    IN [results EXCEPT
           !.version_analysis[version_category] =
               Increment(@, failure_analysis.failure_point),
           !.failure_categories[category] = Append(@, failure_analysis),
           !.detailed_results = Append(@, failure_analysis)]

RECURSIVE Metabase_analyze_loop(_, _, _)
Metabase_analyze_loop(results, sessions, now) ==
    IF sessions = <<>> THEN results
    ELSE Metabase_analyze_loop(Metabase_analyze_one(results, Head(sessions), now),
                               Tail(sessions), now)

Metabase_analyze_matchmaking_failures(sessions, now) ==
    Metabase_analyze_loop(Metabase_initial_results(sessions), sessions, now)

(***************************************************************************)
(* Analyzer_Automated.py: analyze_matchmaking_failures on the logs that    *)
(* passed the wait-time filter, and the failure breakdown it prints.       *)
(***************************************************************************)
Athena_initial_results(sessions) ==
    [total_logs_analyzed |-> Len(sessions),
     version_analysis |-> [high_version_failures |-> <<>>, low_version_failures |-> <<>>],
     detailed_results |-> <<>>]

Athena_analyze_one(results, session, now) ==
    LET failure_analysis ==
            ("version" :> session.version)
            @@ Athena_analyze_single_log_with_cursor_rule(
                   session.log_file, session.registration_id, now)
        version_category == VersionCategory(session.version)
    IN [results EXCEPT
           !.version_analysis[version_category] =
               Increment(@, failure_analysis.failure_point),
           !.detailed_results = Append(@, failure_analysis)]

RECURSIVE Athena_analyze_loop(_, _, _)
Athena_analyze_loop(results, sessions, now) ==
    IF sessions = <<>> THEN results
    ELSE Athena_analyze_loop(Athena_analyze_one(results, Head(sessions), now),
                             Tail(sessions), now)

Athena_analyze_matchmaking_failures(sessions, now) ==
    Athena_analyze_loop(Athena_initial_results(sessions), sessions, now)

\* The "Primary Failure Point Distribution" lines: label, count, percentage.
Athena_print_detailed_analysis_breakdown(results) ==
    LET failed_results ==
            SelectSeq(results.detailed_results,
                      LAMBDA result : Get(result, "failure_point", "None") # "NO_FAILURE")
        total_failures == Len(failed_results)
        failure_points ==
            Counter([i \in DOMAIN failed_results |->
                        Get(failed_results[i], "failure_point", "UNKNOWN")])
        sorted_failures == SortedByCount(failure_points)
    IN IF total_failures = 0 THEN <<>>
       ELSE [i \in DOMAIN sorted_failures |->
                [failure_point |-> sorted_failures[i][1],
                 count |-> sorted_failures[i][2],
                 percentage |-> Percentage(sorted_failures[i][2], total_failures)]]

(***************************************************************************)
(* automated_matchmaking_analyzer.py: process_csv_file.  A record of the   *)
(* CSV file is analysed when a log file naming its registration id is      *)
(* found; the result is appended to self.analysis_results, which lives as  *)
(* long as the analyzer instance.  Writing the result files succeeds.      *)
(***************************************************************************)
RecordKinds == {MissingFile} \cup (0..Len(Progress))

Record(i, progress) ==
    [registration_id |-> Rid(i), log_file |-> SessionLog(Rid(i), progress)]

\* The records of a CSV file, from the kind of each.
CsvRecord(kinds) == [i \in DOMAIN kinds |-> Record(i, kinds[i])]

\* registration_id in content
search_registration_in_file(log_file, registration_id) ==
    /\ log_file.exists
    /\ \E i \in DOMAIN log_file.lines : log_file.lines[i].rid = registration_id

\* The records of the file for which a log was found, in file order.
FoundRecords(records) ==
    SelectSeq(records,
              LAMBDA row : search_registration_in_file(row.log_file, row.registration_id))

AWS_analyze_records(records, now) ==
    LET found == FoundRecords(records)
    IN [i \in DOMAIN found |->
           AWS_analyze_log_with_cursor_rule(found[i].log_file, found[i].registration_id, now)]

RECURSIVE Extend(_)
Extend(lists) == IF lists = <<>> THEN <<>> ELSE Head(lists) \o Extend(Tail(lists))

\* The lines of a distribution in the readable report.
AWS_distribution_lines(distribution, successful_analyses) ==
    [i \in DOMAIN distribution |->
        [label |-> distribution[i][1],
         count |-> distribution[i][2],
         percentage |-> IF successful_analyses > 0
                        THEN Percentage(distribution[i][2], successful_analyses)
                        ELSE Percentage(0, 1)]]

\* _generate_summary_report with the readable report it writes.
AWS_generate_summary_report(results, total_records, successful_analyses) ==
    LET failure_points ==
            [i \in DOMAIN results |-> Get(results[i], "failure_point", "UNKNOWN")]
        failure_types ==
            [i \in DOMAIN results |-> Get(results[i], "failure_type", "UNKNOWN")]
        all_recommendations ==
            Extend([i \in DOMAIN results |-> Get(results[i], "recommendations", <<>>)])
    IN [analysis_summary |->
            [total_records |-> total_records,
             successful_analyses |-> successful_analyses,
             success_rate |-> IF total_records > 0
                              THEN Percentage(successful_analyses, total_records)
                              ELSE Percentage(0, 1)],
        failure_point_distribution |-> Counter(failure_points),
        failure_type_distribution |-> Counter(failure_types),
        recommendations |-> Counter(all_recommendations),
        report |->
            [failure_points |->
                 AWS_distribution_lines(Counter(failure_points), successful_analyses),
             failure_types |->
                 AWS_distribution_lines(Counter(failure_types), successful_analyses)]]

(***************************************************************************)
(* The aggregation state before any run.                                   *)
(***************************************************************************)
NoReport == [total_logs_analyzed |-> 0]
NoSummary == [analysis_summary |-> [total_records |-> 0]]

ReportIdle ==
    /\ log_files = <<>>
    /\ analysis_results = NoReport
    /\ printed = <<>>
    /\ self_analysis_results = <<>>
    /\ summary = NoSummary
    /\ runs = 0

(***************************************************************************)
(* Analyzer_Automated.py: _wait_for_query_completion.  The query execution *)
(* is the answer of get_query_execution: its State and, when Athena gives  *)
(* one, its StateChangeReason.                                             *)
(***************************************************************************)
NoReason == "none"
QueryStates == {"QUEUED", "RUNNING", "SUCCEEDED", "FAILED", "CANCELLED"}
StateChangeReasons == {NoReason, "Query exhausted resources"}
NoQuery == [State |-> "none", StateChangeReason |-> NoReason]

\* response['QueryExecution']['Status'].get('StateChangeReason', 'Unknown error')
error_msg(execution) ==
    IF execution.StateChangeReason = NoReason THEN "Unknown error"
    ELSE execution.StateChangeReason

\* The sleeps are counted up to MaxPolls.
Slept(n) == IF n < MaxPolls THEN n + 1 ELSE MaxPolls

WaitIdle ==
    /\ query_execution = NoQuery
    /\ waited = 0
    /\ wait_pc = "idle"
    /\ wait_error = "none"

(***************************************************************************)
(* Analyzer_Automated.py: the workers of fetch_aws_logs that need the same *)
(* ZIP archive.  The file at its cache path is absent, being written       *)
(* (partial), complete, or corrupt (left by an earlier run).               *)
(***************************************************************************)
Workers == 1..MaxWorkers
ZipStates == {"absent", "partial", "complete", "corrupt"}

\* local_zip_path.exists()
Exists(zip) == zip # "absent"

\* What download_file leaves at the cache path while it is writing: the
\* source does not say whether the file is written in place or moved there
\* at the end, so both are possible.
WhileDownloading(zip) == {zip, "partial"}

Downloading(w) == worker_pc[w] \in {"downloading", "redownloading"}
Reading(w) == worker_pc[w] = "reading"

FetchIdle ==
    /\ zip_cache = "absent"
    /\ worker_pc = [w \in Workers |-> "idle"]

(***************************************************************************)
(* cgp_missed_merge_analysis.py: find_peak_traffic_window.  Time is        *)
(* counted in half hours; a row is [reason, updated_at].                   *)
(***************************************************************************)
TicksPerHour == 2
PeakReasons == {"matchmaking-failed", "completed"}
PeakRows == [reason : PeakReasons, updated_at : 0..MaxTime]
DataFrames == UNION {[1..n -> PeakRows] : n \in 0..MaxRecords}
WindowHours == 1..MaxWindow

\* updated_at_dt.dt.floor('H')
FloorHour(t) == (t \div TicksPerHour) * TicksPerHour
\* pd.Timedelta(hours=n)
Hours(n) == n * TicksPerHour

\* The hours of a set, ascending (groupby sorts its keys).
RECURSIVE Ascending(_)
Ascending(hours) ==
    IF hours = {} THEN <<>>
    ELSE LET first == CHOOSE h \in hours : \A g \in hours : h <= g
         IN <<first>> \o Ascending(hours \ {first})

\* failures_df.groupby('hour').size(): one row per hour that has failures
hourly_counts(failures_df) ==
    LET hours == Ascending({FloorHour(failures_df[i].updated_at) : i \in DOMAIN failures_df})
    IN [k \in DOMAIN hours |->
           [hour |-> hours[k],
            failure_count |->
                Cardinality({i \in DOMAIN failures_df :
                                FloorHour(failures_df[i].updated_at) = hours[k]})]]

\* hourly_counts.iloc[i:i+window_hours]['failure_count'].sum(), i from 1
RECURSIVE SumRows(_, _, _)
SumRows(counts, from, to) ==
    IF from > to \/ from > Len(counts) THEN 0
    ELSE counts[from].failure_count + SumRows(counts, from + 1, to)

\* The loop over the windows from the i-th on, with the best found so far.
RECURSIVE PeakLoop(_, _, _, _)
PeakLoop(counts, hours, i, best) ==
    IF i > Len(counts) - hours + 1 THEN best
    ELSE LET window_failures == SumRows(counts, i, i + hours - 1)
         IN IF window_failures > best.max_failures
            THEN PeakLoop(counts, hours, i + 1,
                          [best_start_hour |-> counts[i].hour,
                           max_failures |-> window_failures])
            ELSE PeakLoop(counts, hours, i + 1, best)

NoHour == 0 - 1

find_peak_traffic_window(frame, hours) ==
    LET failures_df == SelectSeq(frame, LAMBDA row : row.reason = "matchmaking-failed")
        counts == hourly_counts(failures_df)
        best == PeakLoop(counts, hours, 1, [best_start_hour |-> NoHour, max_failures |-> 0])
        peak_start == best.best_start_hour
        peak_end == peak_start + Hours(hours)
    IN IF Len(failures_df) = 0 THEN [returned |-> "None"]
       ELSE IF Len(counts) < hours THEN [returned |-> "df", peak_df |-> frame]
       ELSE IF best.best_start_hour = NoHour THEN [returned |-> "df", peak_df |-> frame]
       ELSE [returned |-> "peak",
             peak_start |-> peak_start,
             peak_end |-> peak_end,
             max_failures |-> best.max_failures,
             peak_df |-> SelectSeq(frame, LAMBDA row : /\ row.updated_at >= peak_start
                                                       /\ row.updated_at < peak_end)]

NotCalled == [returned |-> "not called"]

PeakIdle ==
    /\ traffic_df = <<>>
    /\ window_hours = 2
    /\ peak = NotCalled

(***************************************************************************)
(* State machine: one run of one script on one log file and one session.   *)
(* The caller may classify the same session again; two calls never read    *)
(* the same instant from datetime.now().                                   *)
(***************************************************************************)
NoResult == [registration_id |-> "none"]

CanAnalyze ==
    IF analysis_result = NoResult THEN TRUE
    ELSE analysis_result.analysis_timestamp < clock

Init ==
    /\ log \in LogFiles
    /\ clock = 0
    /\ analyzer \in Analyzers
    /\ reg_id \in RegIds
    /\ calls = 0
    /\ analysis_result = NoResult
    /\ CapacityIdle
    /\ CsvIdle
    /\ ReportIdle
    /\ WaitIdle
    /\ FetchIdle
    /\ PeakIdle

AthenaAnalyze ==
    /\ analyzer = "Athena"
    /\ CanAnalyze
    /\ analysis_result' =
           Athena_analyze_single_log_with_cursor_rule(log, reg_id, clock)
    /\ calls' = calls + 1
    /\ UNCHANGED <<log, clock, analyzer, reg_id>>
    /\ UNCHANGED <<capacity_vars, csv_vars, report_vars>>
    /\ UNCHANGED <<wait_vars, fetch_vars, peak_vars>>

AWSAnalyze ==
    /\ analyzer = "AWS"
    /\ CanAnalyze
    /\ analysis_result' = AWS_analyze_log_with_cursor_rule(log, reg_id, clock)
    /\ calls' = calls + 1
    /\ UNCHANGED <<log, clock, analyzer, reg_id>>
    /\ UNCHANGED <<capacity_vars, csv_vars, report_vars>>
    /\ UNCHANGED <<wait_vars, fetch_vars, peak_vars>>

MetabaseAnalyze ==
    /\ analyzer = "Metabase"
    /\ CanAnalyze
    /\ analysis_result' =
           Metabase_analyze_single_log_with_cursor_rule(log, reg_id, clock)
    /\ calls' = calls + 1
    /\ UNCHANGED <<log, clock, analyzer, reg_id>>
    /\ UNCHANGED <<capacity_vars, csv_vars, report_vars>>
    /\ UNCHANGED <<wait_vars, fetch_vars, peak_vars>>

\* Time passes between two calls of datetime.now().
Tick ==
    /\ clock < MaxClock
    /\ clock' = clock + 1
    /\ UNCHANGED <<log, analyzer, reg_id, calls, analysis_result>>
    /\ UNCHANGED <<capacity_vars, csv_vars, report_vars>>
    /\ UNCHANGED <<wait_vars, fetch_vars, peak_vars>>

Next ==
    \/ AthenaAnalyze
    \/ AWSAnalyze
    \/ MetabaseAnalyze

Spec == Init /\ [][Next]_vars

\* The same runs with the clock advancing between classifications.
InitRepeat ==
    /\ log \in {f \in LogFiles : Len(f.lines) <= MaxLogLen}
    /\ clock = 0
    /\ analyzer \in Analyzers
    /\ reg_id \in RegIds
    /\ calls = 0
    /\ analysis_result = NoResult
    /\ CapacityIdle
    /\ CsvIdle
    /\ ReportIdle
    /\ WaitIdle
    /\ FetchIdle
    /\ PeakIdle

NextRepeat ==
    \/ AthenaAnalyze
    \/ AWSAnalyze
    \/ MetabaseAnalyze
    \/ Tick

SpecRepeat == InitRepeat /\ [][NextRepeat]_vars

\* The same runs with callers that may pass an empty registration id.
EmptyId == ""

InitContract ==
    /\ log \in {f \in LogFiles : Len(f.lines) <= MaxLogLen}
    /\ clock = 0
    /\ analyzer \in Analyzers
    /\ reg_id \in RegIds \cup {EmptyId}
    /\ calls = 0
    /\ analysis_result = NoResult
    /\ CapacityIdle
    /\ CsvIdle
    /\ ReportIdle
    /\ WaitIdle
    /\ FetchIdle
    /\ PeakIdle

SpecContract == InitContract /\ [][Next]_vars

(***************************************************************************)
(* State machine of matchmaking_analyzer.py: the status of one failed game *)
(* from its player count and max_seats.                                    *)
(***************************************************************************)
ClassifierIdle ==
    /\ log = NoLogFile
    /\ clock = 0
    /\ analyzer = "Athena"
    /\ reg_id = "r1"
    /\ calls = 0
    /\ analysis_result = NoResult

InitCapacity ==
    /\ participants \in PlayerCounts
    /\ capacity \in SeatValues
    /\ capacity_result = NotClassified
    /\ ClassifierIdle
    /\ CsvIdle
    /\ ReportIdle
    /\ WaitIdle
    /\ FetchIdle
    /\ PeakIdle

DetectGameTypeAndStatus ==
    /\ capacity_result = NotClassified
    /\ capacity_result' = detect_game_type_and_status(participants, capacity)
    /\ UNCHANGED <<participants, capacity, classifier_vars, csv_vars, report_vars>>
    /\ UNCHANGED <<wait_vars, fetch_vars, peak_vars>>

NextCapacity == DetectGameTypeAndStatus

SpecCapacity == InitCapacity /\ [][NextCapacity]_vars

(***************************************************************************)
(* State machine of matchmaking_analyzer.py: the analysis of one CSV file. *)
(***************************************************************************)
InitCsv ==
    /\ csv_file \in CsvFiles
    /\ game_analysis = <<>>
    /\ pc = "start"
    /\ ClassifierIdle
    /\ CapacityIdle
    /\ ReportIdle
    /\ WaitIdle
    /\ FetchIdle
    /\ PeakIdle

AnalyzeGenericMatchmakingPatterns ==
    /\ pc = "start"
    /\ game_analysis' = analyze_generic_matchmaking_patterns(csv_file)
    /\ pc' = "done"
    /\ UNCHANGED <<csv_file, classifier_vars, capacity_vars, report_vars>>
    /\ UNCHANGED <<wait_vars, fetch_vars, peak_vars>>

NextCsv == AnalyzeGenericMatchmakingPatterns

SpecCsv == InitCsv /\ [][NextCsv]_vars

(***************************************************************************)
(* State machine of the aggregation: one analyzer instance of one script.  *)
(* Analyzer_Automated.py and Analyzer_from_metabase_to_AWS.py aggregate    *)
(* once per program run into a fresh dict; process_csv_file of             *)
(* automated_matchmaking_analyzer.py may be called again on the instance.  *)
(* SpecReport is the run of Analyzer_from_metabase_to_AWS.py,              *)
(* SpecBreakdown the one of Analyzer_Automated.py, SpecSummary the runs of *)
(* process_csv_file.                                                       *)
(***************************************************************************)
InitReport ==
    /\ analyzer = "Metabase"
    /\ log = NoLogFile
    /\ clock = 0
    /\ reg_id = "r1"
    /\ calls = 0
    /\ analysis_result = NoResult
    /\ CapacityIdle
    /\ CsvIdle
    /\ ReportIdle
    /\ WaitIdle
    /\ FetchIdle
    /\ PeakIdle

AthenaAnalyzeMatchmakingFailures ==
    /\ analyzer = "Athena"
    /\ runs = 0
    /\ \E n \in 0..MaxSessions : \E kinds \in [1..n -> TargetKinds] :
          LET sessions == LogFileDict(kinds)
              results == Athena_analyze_matchmaking_failures(sessions, clock)
          IN /\ log_files' = sessions
             /\ analysis_results' = results
             /\ printed' = Athena_print_detailed_analysis_breakdown(results)
    /\ runs' = runs + 1
    /\ UNCHANGED <<self_analysis_results, summary>>
    /\ UNCHANGED <<classifier_vars, capacity_vars, csv_vars>>
    /\ UNCHANGED <<wait_vars, fetch_vars, peak_vars>>

MetabaseAnalyzeMatchmakingFailures ==
    /\ analyzer = "Metabase"
    /\ runs = 0
    /\ \E n \in 0..MaxSessions : \E kinds \in [1..n -> SessionKinds] :
          LET sessions == LogFileDict(kinds)
          IN /\ log_files' = sessions
             /\ analysis_results' = Metabase_analyze_matchmaking_failures(sessions, clock)
    /\ runs' = runs + 1
    /\ UNCHANGED <<printed, self_analysis_results, summary>>
    /\ UNCHANGED <<classifier_vars, capacity_vars, csv_vars>>
    /\ UNCHANGED <<wait_vars, fetch_vars, peak_vars>>

AWSProcessCsvFile ==
    /\ analyzer = "AWS"
    /\ runs < MaxRuns
    /\ \E n \in 0..MaxRows : \E kinds \in [1..n -> RecordKinds] :
          LET records == CsvRecord(kinds)
              total_records == Len(records)
              successful_analyses == Len(FoundRecords(records))
              results == self_analysis_results \o AWS_analyze_records(records, clock)
          IN /\ log_files' = records
             /\ self_analysis_results' = results
             /\ summary' =
                    AWS_generate_summary_report(results, total_records, successful_analyses)
    /\ runs' = runs + 1
    /\ UNCHANGED <<analysis_results, printed>>
    /\ UNCHANGED <<classifier_vars, capacity_vars, csv_vars>>
    /\ UNCHANGED <<wait_vars, fetch_vars, peak_vars>>

NextReport == MetabaseAnalyzeMatchmakingFailures

SpecReport == InitReport /\ [][NextReport]_vars

\* One run of Analyzer_Automated.py up to the printed breakdown.
InitBreakdown ==
    /\ analyzer = "Athena"
    /\ log = NoLogFile
    /\ clock = 0
    /\ reg_id = "r1"
    /\ calls = 0
    /\ analysis_result = NoResult
    /\ CapacityIdle
    /\ CsvIdle
    /\ ReportIdle
    /\ WaitIdle
    /\ FetchIdle
    /\ PeakIdle

NextBreakdown == AthenaAnalyzeMatchmakingFailures

SpecBreakdown == InitBreakdown /\ [][NextBreakdown]_vars

\* The runs of process_csv_file on one AWSMatchmakingAnalyzer instance.
InitSummary ==
    /\ analyzer = "AWS"
    /\ log = NoLogFile
    /\ clock = 0
    /\ reg_id = "r1"
    /\ calls = 0
    /\ analysis_result = NoResult
    /\ CapacityIdle
    /\ CsvIdle
    /\ ReportIdle
    /\ WaitIdle
    /\ FetchIdle
    /\ PeakIdle

NextSummary == AWSProcessCsvFile

SpecSummary == InitSummary /\ [][NextSummary]_vars

(***************************************************************************)
(* State machine: fetch_athena_data starts a query and waits for it in     *)
(* _wait_for_query_completion, while Athena runs the query.  The loop      *)
(* polls, then sleeps and polls again; nothing obliges Athena to finish.   *)
(***************************************************************************)
OtherIdle ==
    /\ analyzer = "Athena"
    /\ log = NoLogFile
    /\ clock = 0
    /\ reg_id = "r1"
    /\ calls = 0
    /\ analysis_result = NoResult
    /\ CapacityIdle
    /\ CsvIdle
    /\ ReportIdle

InitWait ==
    /\ OtherIdle
    /\ WaitIdle
    /\ FetchIdle
    /\ PeakIdle

\* start_query_execution, then the call of _wait_for_query_completion
StartQueryExecution ==
    /\ wait_pc = "idle"
    /\ query_execution' = [State |-> "QUEUED", StateChangeReason |-> NoReason]
    /\ wait_pc' = "polling"
    /\ UNCHANGED <<waited, wait_error>>
    /\ UNCHANGED <<classifier_vars, capacity_vars, csv_vars, report_vars>>
    /\ UNCHANGED <<fetch_vars, peak_vars>>

\* Athena moves the query on.
AthenaProgress ==
    /\ query_execution.State \in {"QUEUED", "RUNNING"}
    /\ \/ /\ query_execution.State = "QUEUED"
          /\ query_execution' = [query_execution EXCEPT !.State = "RUNNING"]
       \/ /\ query_execution.State = "RUNNING"
          /\ query_execution' = [query_execution EXCEPT !.State = "SUCCEEDED"]
       \/ \E state \in {"FAILED", "CANCELLED"} : \E reason \in StateChangeReasons :
              query_execution' = [State |-> state, StateChangeReason |-> reason]
    /\ UNCHANGED <<waited, wait_pc, wait_error>>
    /\ UNCHANGED <<classifier_vars, capacity_vars, csv_vars, report_vars>>
    /\ UNCHANGED <<fetch_vars, peak_vars>>

\* One pass of the while True loop, up to the call of time.sleep(2).
WaitForQueryCompletion ==
    /\ wait_pc = "polling"
    /\ LET status == query_execution.State
       IN IF status \in {"SUCCEEDED"}
          THEN /\ wait_pc' = "returned"
               /\ UNCHANGED wait_error
          ELSE IF status \in {"FAILED", "CANCELLED"}
          THEN /\ wait_pc' = "raised"
               /\ wait_error' = "Query failed: " \o error_msg(query_execution)
          ELSE /\ wait_pc' = "sleeping"
               /\ UNCHANGED wait_error
    /\ UNCHANGED <<query_execution, waited>>
    /\ UNCHANGED <<classifier_vars, capacity_vars, csv_vars, report_vars>>
    /\ UNCHANGED <<fetch_vars, peak_vars>>

\* time.sleep(2) returns and the loop starts its next pass.
Sleep ==
    /\ wait_pc = "sleeping"
    /\ wait_pc' = "polling"
    /\ waited' = Slept(waited)
    /\ UNCHANGED <<query_execution, wait_error>>
    /\ UNCHANGED <<classifier_vars, capacity_vars, csv_vars, report_vars>>
    /\ UNCHANGED <<fetch_vars, peak_vars>>

NextWait ==
    \/ StartQueryExecution
    \/ AthenaProgress
    \/ WaitForQueryCompletion
    \/ Sleep

\* The thread that waits is never stopped: a step it can make is made.
SpecWait ==
    /\ InitWait
    /\ [][NextWait]_vars
    /\ WF_vars(StartQueryExecution)
    /\ WF_vars(WaitForQueryCompletion)
    /\ WF_vars(Sleep)

(***************************************************************************)
(* State machine: the workers fetch_aws_logs submits to the thread pool,   *)
(* each in _download_registration_log for a registration whose log is in   *)
(* the same ZIP archive.  The threads interleave at every file operation.  *)
(***************************************************************************)
InitFetch ==
    /\ OtherIdle
    /\ WaitIdle
    /\ PeakIdle
    /\ zip_cache \in {"absent", "complete", "corrupt"}
    /\ worker_pc = [w \in Workers |-> "idle"]

FetchUnchanged ==
    /\ UNCHANGED <<classifier_vars, capacity_vars, csv_vars, report_vars>>
    /\ UNCHANGED <<wait_vars, peak_vars>>

\* executor.submit up to list_objects_v2: the archive is listed, or the
\* prefix has no Contents and the worker returns None.
ListObjects(w) ==
    /\ worker_pc[w] = "idle"
    /\ \E listed \in BOOLEAN :
          worker_pc' = [worker_pc EXCEPT ![w] = IF listed THEN "check" ELSE "done"]
    /\ UNCHANGED zip_cache
    /\ FetchUnchanged

\* if local_zip_path.exists(): skip the fetch, else call download_file
CheckCache(w) ==
    /\ worker_pc[w] = "check"
    /\ IF Exists(zip_cache)
       THEN /\ worker_pc' = [worker_pc EXCEPT ![w] = "open"]
            /\ UNCHANGED zip_cache
       ELSE /\ worker_pc' = [worker_pc EXCEPT ![w] = "downloading"]
            /\ zip_cache' \in WhileDownloading(zip_cache)
    /\ FetchUnchanged

\* download_file returns: the archive is at the cache path.
Downloaded(w) ==
    /\ worker_pc[w] = "downloading"
    /\ zip_cache' = "complete"
    /\ worker_pc' = [worker_pc EXCEPT ![w] = "open"]
    /\ FetchUnchanged

\* zipfile.ZipFile(local_zip_path, 'r'): a missing file ends the worker in
\* the outer except, an incomplete one raises BadZipFile, a complete one
\* is being extracted.
OpenZip(w) ==
    /\ worker_pc[w] = "open"
    /\ worker_pc' = [worker_pc EXCEPT ![w] =
                         CASE zip_cache = "absent" -> "done"
                           [] zip_cache = "complete" -> "reading"
                           [] OTHER -> "unlink"]
    /\ UNCHANGED zip_cache
    /\ FetchUnchanged

\* extractall and the search of the extracted files are over.
Extracted(w) ==
    /\ worker_pc[w] = "reading"
    /\ worker_pc' = [worker_pc EXCEPT ![w] = "done"]
    /\ UNCHANGED zip_cache
    /\ FetchUnchanged

\* except BadZipFile: local_zip_path.unlink(), then download_file again
Unlink(w) ==
    /\ worker_pc[w] = "unlink"
    /\ IF Exists(zip_cache)
       THEN /\ zip_cache' \in WhileDownloading("absent")
            /\ worker_pc' = [worker_pc EXCEPT ![w] = "redownloading"]
       ELSE /\ worker_pc' = [worker_pc EXCEPT ![w] = "done"]
            /\ UNCHANGED zip_cache
    /\ FetchUnchanged

\* The second download_file returns and the archive is opened again; an
\* exception here ends the worker in the outer except.
Redownloaded(w) ==
    /\ worker_pc[w] = "redownloading"
    /\ zip_cache' = "complete"
    /\ worker_pc' = [worker_pc EXCEPT ![w] = "reading"]
    /\ FetchUnchanged

NextFetch ==
    \E w \in Workers :
        \/ ListObjects(w)
        \/ CheckCache(w)
        \/ Downloaded(w)
        \/ OpenZip(w)
        \/ Extracted(w)
        \/ Unlink(w)
        \/ Redownloaded(w)

SpecFetch == InitFetch /\ [][NextFetch]_vars

(***************************************************************************)
(* State machine: one call of find_peak_traffic_window.                    *)
(***************************************************************************)
InitPeak ==
    /\ OtherIdle
    /\ WaitIdle
    /\ FetchIdle
    /\ traffic_df \in DataFrames
    /\ window_hours \in WindowHours
    /\ peak = NotCalled

FindPeakTrafficWindow ==
    /\ peak = NotCalled
    /\ peak' = find_peak_traffic_window(traffic_df, window_hours)
    /\ UNCHANGED <<traffic_df, window_hours>>
    /\ UNCHANGED <<classifier_vars, capacity_vars, csv_vars, report_vars>>
    /\ UNCHANGED <<wait_vars, fetch_vars>>

NextPeak == FindPeakTrafficWindow

SpecPeak == InitPeak /\ [][NextPeak]_vars

(***************************************************************************)
(* Vocabulary of the properties                                            *)
(***************************************************************************)
Classified == analysis_result # NoResult
NoError == Classified /\ "error" \notin DOMAIN analysis_result
ShortCircuit == analyzer \in {"AWS", "Metabase"}
Independent == analyzer = "Athena"

phase1 == analysis_result.phases.phase1_registration
phase2 == analysis_result.phases.phase2_table_assignment
phase3 == analysis_result.phases.phase3_socket_connection
phase4 == analysis_result.phases.phase4_matchmaking_lifecycle
Primary == <<analysis_result.failure_point, analysis_result.failure_type>>

Lines == log.lines
Statuses == <<phase1.status, phase2.status, phase3.status, phase4.status>>

\* Number of the first stage recorded FAILED, 0 if none is.
FirstFailed ==
    IF phase1.status = "FAILED" THEN 1
    ELSE IF phase2.status = "FAILED" THEN 2
    ELSE IF phase3.status = "FAILED" THEN 3
    ELSE IF phase4.status = "FAILED" THEN 4
    ELSE 0

\* Markers of the log, read off its lines.  A marker is tied to an id when
\* the id attribute follows the marker literal, on the same line or a later one.
HasMarker(m) == \E i \in DOMAIN Lines : Lines[i].marker = m

Tied(m, id) ==
    \E i \in DOMAIN Lines : \E j \in DOMAIN Lines :
        i <= j /\ Lines[i].marker = m /\ Lines[j].rid = id

TiedWithField(m, id, f) ==
    \E i \in DOMAIN Lines : \E j \in DOMAIN Lines : \E k \in DOMAIN Lines :
        i <= j /\ j <= k /\ Lines[i].marker = m /\ Lines[j].rid = id /\ Lines[k].field = f

Queued == TiedWithField(SOCKET_EVENT, reg_id, STATE_FINDING)
RoundStarting == TiedWithField(SOCKET_EVENT, reg_id, EN_ROUND_STARTING)
ServerFailed == TiedWithField(SOCKET_EVENT, reg_id, EN_MATCH_MAKING_FAILED)
TimerExpired == HasMarker(TIMER_EXPIRED)

(***************************************************************************)
(* C1: the primary failure point/type is that of the first stage, in the   *)
(* order Registration, Table Assignment, Socket Connection, Matchmaking    *)
(* Lifecycle, whose stage result is FAILED; it is NO_FAILURE/SUCCESS when   *)
(* no stage is FAILED, and then all four stage results are SUCCESS.        *)
(***************************************************************************)
C1_FirstFailureWins ==
    NoError =>
        CASE FirstFailed = 1 -> Primary = <<"REGISTRATION", "REGISTRATION_FAILURE">>
          [] FirstFailed = 2 -> Primary = <<"TABLE_ASSIGNMENT", "ALLOCATION_FAILURE">>
          [] FirstFailed = 3 -> Primary = <<"SOCKET_CONNECTION", "NETWORK_FAILURE">>
          [] FirstFailed = 4 ->
                /\ Primary = <<phase4.failure_point, phase4.failure_type>>
                /\ Primary \in {<<"QUEUE_ENTRY", "QUEUE_ENTRY_FAILURE">>,
                                <<"MATCHMAKING_LOGIC", "SERVER_SIDE_MATCHMAKING_FAILURE">>,
                                <<"SERVER_UNRESPONSIVE", "CLIENT_SIDE_TIMEOUT">>,
                                <<"MATCHMAKING_UNKNOWN", "UNKNOWN_MATCHMAKING_FAILURE">>}
          [] OTHER ->
                /\ Statuses = <<"SUCCESS", "SUCCESS", "SUCCESS", "SUCCESS">>
                /\ Primary = <<"NO_FAILURE", "SUCCESS">>

\* Several stages failed and the earliest one, not the first in the list, is primary.
C1_Witness ==
    /\ NoError
    /\ Independent
    /\ Statuses = <<"SUCCESS", "FAILED", "SUCCESS", "FAILED">>
    /\ Primary = <<"TABLE_ASSIGNMENT", "ALLOCATION_FAILURE">>

(***************************************************************************)
(* C2 as stated: whenever the Matchmaking Lifecycle stage result is        *)
(* SUCCESS the primary is NO_FAILURE/SUCCESS, whatever the earlier stages  *)
(* recorded, in either mode.                                               *)
(***************************************************************************)
C2_LifecycleSuccessMeansNoFailure ==
    (NoError /\ phase4.status = "SUCCESS") => Primary = <<"NO_FAILURE", "SUCCESS">>

(***************************************************************************)
(* C2 amended: when the lifecycle stage result is SUCCESS and no earlier   *)
(* stage result is FAILED, the primary is NO_FAILURE/SUCCESS; that is      *)
(* always the case in short-circuit mode.  In independent mode an earlier  *)
(* FAILED stage stays the primary failure point.                           *)
(***************************************************************************)
C2_LifecycleSuccessAmended ==
    (NoError /\ phase4.status = "SUCCESS") =>
        IF FirstFailed = 0
        THEN Primary = <<"NO_FAILURE", "SUCCESS">>
        ELSE /\ Independent
             /\ analysis_result.failure_point \in
                    {"REGISTRATION", "TABLE_ASSIGNMENT", "SOCKET_CONNECTION"}

C2_Witness ==
    /\ NoError
    /\ ShortCircuit
    /\ phase4.status = "SUCCESS"
    /\ Primary = <<"NO_FAILURE", "SUCCESS">>

(***************************************************************************)
(* C3: with the queue-entry marker present, the lifecycle outcome is       *)
(* decided in the order round starting, MATCH_MAKING_FAILED, timer         *)
(* expired, none.                                                          *)
(***************************************************************************)
C3_LifecyclePriority ==
    (NoError /\ phase4.status # "UNKNOWN" /\ Queued) =>
        LET outcome == <<phase4.status, phase4.failure_point, phase4.failure_type>>
        IN IF RoundStarting
           THEN outcome = <<"SUCCESS", "NO_FAILURE", "SUCCESS">>
           ELSE IF ServerFailed
           THEN outcome = <<"FAILED", "MATCHMAKING_LOGIC", "SERVER_SIDE_MATCHMAKING_FAILURE">>
           ELSE IF TimerExpired
           THEN outcome = <<"FAILED", "SERVER_UNRESPONSIVE", "CLIENT_SIDE_TIMEOUT">>
           ELSE outcome = <<"FAILED", "MATCHMAKING_UNKNOWN", "UNKNOWN_MATCHMAKING_FAILURE">>

\* Server failure and timer expiry both in the log: the server signal wins.
C3_Witness ==
    /\ NoError
    /\ Queued /\ ServerFailed /\ TimerExpired /\ ~RoundStarting
    /\ phase4.failure_type = "SERVER_SIDE_MATCHMAKING_FAILURE"

(***************************************************************************)
(* C4 as stated: a log with only a registration-success marker of the      *)
(* session is classified TABLE_ASSIGNMENT / ALLOCATION_FAILURE.            *)
(***************************************************************************)
OnlyRegistrationSuccess == Lines = <<LogLine(REGISTER_SUCCESS, reg_id, NoField)>>

RequestAndRegistrationSuccess ==
    Lines = <<LogLine(REGISTER_REQUEST, NoId, NoField),
              LogLine(REGISTER_SUCCESS, reg_id, NoField)>>

C4_OnlySuccessMarkerIsTableAssignment ==
    (NoError /\ OnlyRegistrationSuccess) =>
        Primary = <<"TABLE_ASSIGNMENT", "ALLOCATION_FAILURE">>

(***************************************************************************)
(* C4 amended: a log with only a registration-success marker of the        *)
(* session is classified REGISTRATION / REGISTRATION_FAILURE (no request   *)
(* marker); a log with only the registration request marker and the        *)
(* session's registration-success marker is classified TABLE_ASSIGNMENT /  *)
(* ALLOCATION_FAILURE.                                                     *)
(***************************************************************************)
C4_ScenarioAmended ==
    /\ (NoError /\ OnlyRegistrationSuccess) =>
            /\ Primary = <<"REGISTRATION", "REGISTRATION_FAILURE">>
            /\ phase1.details.failure_reason = "No registration API request found"
    /\ (NoError /\ RequestAndRegistrationSuccess) =>
            Primary = <<"TABLE_ASSIGNMENT", "ALLOCATION_FAILURE">>

C4_Witness ==
    /\ NoError
    /\ RequestAndRegistrationSuccess
    /\ phase1.status = "SUCCESS"
    /\ Primary = <<"TABLE_ASSIGNMENT", "ALLOCATION_FAILURE">>

StageMarkers ==
    << {REGISTER_REQUEST, REGISTER_SUCCESS},
       {DETAILS_REQUEST, DETAILS_SUCCESS},
       {SOCKET_URL, SOCKET_CONNECTED, SOCKET_FAILED},
       {SOCKET_EVENT, TIMER_EXPIRED} >>

StageResults == <<phase1, phase2, phase3, phase4>>

C6_NoMarkerFailedWithReason ==
    NoError =>
        \A k \in 1..4 :
            (/\ StageResults[k].status # "UNKNOWN"
             /\ \A m \in StageMarkers[k] : ~HasMarker(m))
            => /\ StageResults[k].status = "FAILED"
               /\ "failure_reason" \in DOMAIN StageResults[k].details
               /\ StageResults[k].details.failure_reason # ""

(***************************************************************************)
(* C7: in short-circuit mode the classification carries the list of all    *)
(* failure points, equal to the list the independent-mode classifier       *)
(* produces for the same log and registration id.                          *)
(***************************************************************************)
C7_ShortCircuitListsAllFailures ==
    (NoError /\ ShortCircuit) =>
        /\ "all_failure_points" \in DOMAIN analysis_result
        /\ analysis_result.all_failure_points =
               Athena_analyze_single_log_with_cursor_rule(log, reg_id, clock).all_failure_points

WithoutTimestamp(r) == [k \in DOMAIN r \ {"analysis_timestamp"} |-> r[k]]

WithoutLine(i) ==
    [log EXCEPT !.lines = SubSeq(Lines, 1, i - 1) \o SubSeq(Lines, i + 1, Len(Lines))]

Verdict(r) ==
    << r.phases.phase1_registration.status,
       r.phases.phase2_table_assignment.status,
       r.phases.phase3_socket_connection.status,
       r.phases.phase4_matchmaking_lifecycle.status,
       r.failure_point,
       r.failure_type >>

C9_NoCrossSessionContamination ==
    NoError =>
        \A i \in DOMAIN Lines :
            Lines[i].rid \in RegIds \ {reg_id}
            => Verdict(Classify(analyzer, WithoutLine(i), reg_id, clock))
                   = Verdict(analysis_result)

DetailsRequested == Tied(DETAILS_REQUEST, reg_id)
TableAssigned == TiedWithField(DETAILS_SUCCESS, reg_id, TABLE_ASSIGNED)

OnLine(m, id) == \E i \in DOMAIN Lines : Lines[i].marker = m /\ Lines[i].rid = id

SocketAttempted == OnLine(SOCKET_URL, reg_id)
SocketConnected == OnLine(SOCKET_CONNECTED, reg_id)
SocketFailed == OnLine(SOCKET_FAILED, reg_id)

C12_SocketEvaluator ==
    (NoError /\ phase3.status # "UNKNOWN") =>
        IF ~SocketAttempted
        THEN phase3.status = "FAILED"
        ELSE IF SocketConnected
        THEN phase3.status = "SUCCESS"
        ELSE IF SocketFailed
        THEN /\ phase3.status = "FAILED"
             /\ phase3.details.failure_reason = "Socket connection explicitly failed"
        ELSE /\ phase3.status = "FAILED"
             /\ phase3.details.failure_reason =
                    "No connection success or failure confirmation found"

\* Attempt, connected and connection-failed markers of the session: SUCCESS.
C12_Witness ==
    /\ NoError
    /\ SocketAttempted /\ SocketConnected /\ SocketFailed
    /\ phase3.status = "SUCCESS"

Evaluated(k) == Statuses[k] # "UNKNOWN"

PrimaryOfStage(k) ==
    CASE k = 1 -> <<"REGISTRATION", "REGISTRATION_FAILURE">>
      [] k = 2 -> <<"TABLE_ASSIGNMENT", "ALLOCATION_FAILURE">>
      [] k = 3 -> <<"SOCKET_CONNECTION", "NETWORK_FAILURE">>
      [] k = 4 -> <<phase4.failure_point, phase4.failure_type>>

C14_ShortCircuitOrder ==
    (NoError /\ ShortCircuit) =>
        /\ \A k \in 1..3 : Evaluated(k + 1) => Statuses[k] = "SUCCESS"
        /\ \A k \in 1..4 :
               Statuses[k] = "FAILED" =>
                   /\ \A j \in (k + 1)..4 : ~Evaluated(j)
                   /\ Primary = PrimaryOfStage(k)
                   /\ analysis_result.failure_point \notin {"UNKNOWN", "NO_FAILURE"}

\* The socket stage failed; the lifecycle events of the session are in the
\* log and the lifecycle evaluator did not run.
C14_Witness ==
    /\ NoError
    /\ ShortCircuit
    /\ Statuses = <<"SUCCESS", "SUCCESS", "FAILED", "UNKNOWN">>
    /\ Queued
    /\ Primary = <<"SOCKET_CONNECTION", "NETWORK_FAILURE">>

(***************************************************************************)
(* Vocabulary of the properties of matchmaking_analyzer.py                 *)
(***************************************************************************)
Detected == capacity_result # NotClassified
GameType == capacity_result[1]
Status == capacity_result[2]
Recognized == capacity \in {Seats(2), Seats(6)}

(***************************************************************************)
(* C15: for max_seats 2 the game type is 2-PLAYER and the status is NORMAL *)
(* when the player count is 1, FISHY when it is 2 and SUSPICIOUS when it   *)
(* is greater than 2.                                                      *)
(***************************************************************************)
C15_TwoPlayerStatus ==
    (Detected /\ capacity = Seats(2)) =>
        /\ GameType = "2-PLAYER"
        /\ participants = 1 => Status = "NORMAL"
        /\ participants = 2 => Status = "FISHY"
        /\ participants > 2 => Status = "SUSPICIOUS"

C15_Witness ==
    /\ Detected
    /\ capacity = Seats(2)
    /\ participants = 3
    /\ capacity_result[1] = "2-PLAYER"
    /\ capacity_result[2] = "SUSPICIOUS"

(***************************************************************************)
(* C16: for max_seats 6 the game type is 6-PLAYER and the status is NORMAL *)
(* when the player count is at most 2, FISHY when it is between 3 and 6    *)
(* inclusive and SUSPICIOUS when it is greater than 6.                     *)
(***************************************************************************)
C16_SixPlayerStatus ==
    (Detected /\ capacity = Seats(6)) =>
        /\ GameType = "6-PLAYER"
        /\ participants <= 2 => Status = "NORMAL"
        /\ participants \in 3..6 => Status = "FISHY"
        /\ participants > 6 => Status = "SUSPICIOUS"

C16_Witness ==
    /\ Detected
    /\ capacity = Seats(6)
    /\ participants = 6
    /\ capacity_result[1] = "6-PLAYER"
    /\ capacity_result[2] = "FISHY"

(***************************************************************************)
(* C17: for every max_seats other than 2 and 6, a missing one included,    *)
(* and every player count, the game type is UNKNOWN and the status is      *)
(* SUSPICIOUS; the function returns a result for every such input.         *)
(***************************************************************************)
C17_UnknownCapacity ==
    (Detected /\ ~Recognized) =>
        /\ Len(capacity_result) = 3
        /\ GameType = "UNKNOWN"
        /\ Status = "SUSPICIOUS"

\* The max_seats cell is empty, the game has one player.
C17_Witness ==
    /\ Detected
    /\ capacity = NaN
    /\ participants = 1
    /\ capacity_result[1] = "UNKNOWN"
    /\ capacity_result[2] = "SUSPICIOUS"

(***************************************************************************)
(* C18: for every pair in which max_seats or the player count is negative  *)
(* the game type is UNKNOWN and the status is SUSPICIOUS, and the function *)
(* returns a result for every pair.                                        *)
(***************************************************************************)
NegativeInput == participants < 0 \/ (~capacity.nan /\ capacity.value < 0)

C18_NegativeInputsUnknown ==
    Detected =>
        /\ Len(capacity_result) = 3
        /\ NegativeInput => (GameType = "UNKNOWN" /\ Status = "SUSPICIOUS")

(***************************************************************************)
(* C19: when the status is SUSPICIOUS for max_seats 2 or 6 the player      *)
(* count is strictly greater than max_seats; for every player count from 0 *)
(* up to max_seats the status is NORMAL or FISHY.  Stated for the player   *)
(* counts a game can have, 0 and up.                                       *)
(***************************************************************************)
C19_SuspiciousMeansOverCapacity ==
    (Detected /\ Recognized /\ participants >= 0) =>
        /\ Status = "SUSPICIOUS" => participants > capacity.value
        /\ participants \in 0..capacity.value => Status \in {"NORMAL", "FISHY"}

(***************************************************************************)
(* C20: the player count passed to detect_game_type_and_status for a       *)
(* failed game is the number of distinct users recorded against that game: *)
(* two failure records of the same user for the same game count as one.    *)
(***************************************************************************)
DistinctUsers(game_id) ==
    {csv_file[i].user_id :
        i \in {j \in DOMAIN csv_file :
                  /\ IsFailure(csv_file[j])
                  /\ HasUser(csv_file[j])
                  /\ csv_file[j].game_id = game_id}}

C20_CountsDistinctParticipants ==
    pc = "done" =>
        \A i \in DOMAIN game_analysis :
            game_analysis[i].player_count =
                Cardinality(DistinctUsers(game_analysis[i].game_id))

(***************************************************************************)
(* C21: a caller contract violation is never swallowed: a classification   *)
(* called with an empty registration id, or with a log that cannot be      *)
(* read, ends in a raised error and not in a returned result.  A call that *)
(* raises leaves no result dict with the caller.                           *)
(***************************************************************************)
ContractViolation == reg_id = EmptyId \/ ~log.exists
Returned == Classified /\ "registration_id" \in DOMAIN analysis_result

C21_ContractViolationRaises ==
    (calls > 0 /\ ContractViolation) => ~Returned

(***************************************************************************)
(* Vocabulary of the properties of the aggregation                         *)
(***************************************************************************)
Aggregated == runs > 0 /\ analyzer \in {"Athena", "Metabase"}
Summarised == runs > 0 /\ analyzer = "AWS"
IsError(result) == "error" \in DOMAIN result
IsNoFailure(result) == result.failure_point = "NO_FAILURE"
Mixes(results) ==
    /\ \E i \in DOMAIN results : IsNoFailure(results[i])
    /\ \E j \in DOMAIN results : IsError(results[j])

(***************************************************************************)
(* C22: "no failure" and "classification error" are never merged: in the   *)
(* aggregated results a session classified NO_FAILURE and a session whose  *)
(* classification ended in an error are never counted under the same       *)
(* failure-point label, and never placed in the same failure category.     *)
(***************************************************************************)
C22_NoFailureAndErrorKeptApart ==
    Aggregated =>
        /\ \A i \in DOMAIN analysis_results.detailed_results :
           \A j \in DOMAIN analysis_results.detailed_results :
               (/\ IsNoFailure(analysis_results.detailed_results[i])
                /\ IsError(analysis_results.detailed_results[j]))
               => analysis_results.detailed_results[i].failure_point
                      # analysis_results.detailed_results[j].failure_point
        /\ "failure_categories" \in DOMAIN analysis_results =>
               \A category \in DOMAIN analysis_results.failure_categories :
                   ~Mixes(analysis_results.failure_categories[category])

(***************************************************************************)
(* C23: a session whose log text is absent is still classified: its        *)
(* Registration stage result goes from UNKNOWN to FAILED, so its primary   *)
(* failure point is REGISTRATION.                                          *)
(***************************************************************************)
C23_AbsentLogFailsRegistration ==
    (Classified /\ Independent /\ ~log.exists) =>
        /\ phase1.status = "FAILED"
        /\ analysis_result.failure_point = "REGISTRATION"

(***************************************************************************)
(* C24: in every failure-point and failure-type distribution of the        *)
(* summary the counts sum to the denominator of the percentages, so the    *)
(* percentages sum to 100% whenever at least one session was classified;   *)
(* this holds after any number of process_csv_file runs on one instance.   *)
(***************************************************************************)
C24_CountsSumToDenominator ==
    (Summarised /\ summary.analysis_summary.successful_analyses > 0) =>
        /\ SumCounts(summary.failure_point_distribution)
               = summary.analysis_summary.successful_analyses
        /\ SumCounts(summary.failure_type_distribution)
               = summary.analysis_summary.successful_analyses

(***************************************************************************)
(* C25: the failure-point counts do not depend on the order in which the   *)
(* classified sessions arrive (every permutation of them gives the same    *)
(* count per category), and in the ranked output, sorted by count,         *)
(* categories of equal count appear in first-seen order.                   *)
(***************************************************************************)
Reorderings(results) ==
    {[i \in DOMAIN results |-> results[order[i]]] :
        order \in {f \in [DOMAIN results -> DOMAIN results] :
                      \A i \in DOMAIN results : \A j \in DOMAIN results :
                          f[i] = f[j] => i = j}}

Ranked == runs > 0 /\ analyzer = "Athena"

FirstSeen(failure_point) ==
    CHOOSE k \in DOMAIN analysis_results.detailed_results :
        /\ analysis_results.detailed_results[k].failure_point = failure_point
        /\ \A m \in 1..(k - 1) :
               analysis_results.detailed_results[m].failure_point # failure_point

SameCounts(lines, other) ==
    /\ Len(lines) = Len(other)
    /\ \A i \in DOMAIN lines : \E j \in DOMAIN other :
           /\ other[j].failure_point = lines[i].failure_point
           /\ other[j].count = lines[i].count

C25_CountsOrderIndependentTiesFirstSeen ==
    Ranked =>
        /\ \A reordered \in Reorderings(analysis_results.detailed_results) :
               SameCounts(printed,
                          Athena_print_detailed_analysis_breakdown(
                              [analysis_results EXCEPT !.detailed_results = reordered]))
        /\ \A i \in DOMAIN printed : \A j \in DOMAIN printed :
               i < j =>
                   /\ printed[i].count >= printed[j].count
                   /\ printed[i].count = printed[j].count
                          => FirstSeen(printed[i].failure_point)
                                 < FirstSeen(printed[j].failure_point)

\* Several sessions arrived and two categories of equal count are ranked.
C25_Witness ==
    /\ Ranked
    /\ Len(analysis_results.detailed_results) > 1
    /\ \E i \in DOMAIN printed : \E j \in DOMAIN printed :
           /\ i < j
           /\ printed[i].count = printed[j].count

(***************************************************************************)
(* C26: waiting for the query is bounded: once _wait_for_query_completion  *)
(* is polling it eventually returns or raises, even if the state of the    *)
(* query execution never becomes SUCCEEDED, FAILED or CANCELLED.           *)
(***************************************************************************)
Polling == wait_pc \in {"polling", "sleeping"}
WaitOver == wait_pc \in {"returned", "raised"}

C26_WaitIsBounded == Polling ~> WaitOver

(***************************************************************************)
(* C27: the two evaluation policies agree on the primary result: for every *)
(* log and session id, the primary failure point and failure type of the   *)
(* independent-mode classifier equal those of the short-circuit            *)
(* classifiers.                                                            *)
(***************************************************************************)
PrimaryOf(result) == <<result.failure_point, result.failure_type>>

IndependentPrimary ==
    PrimaryOf(Athena_analyze_single_log_with_cursor_rule(
                  log, reg_id, analysis_result.analysis_timestamp))

ShortCircuitPrimaries ==
    {PrimaryOf(AWS_analyze_log_with_cursor_rule(
                   log, reg_id, analysis_result.analysis_timestamp)),
     PrimaryOf(Metabase_analyze_single_log_with_cursor_rule(
                   log, reg_id, analysis_result.analysis_timestamp))}

FailedStages == {k \in 1..4 : Statuses[k] = "FAILED"}
\* Position in the list of the entry of a failed stage.
EntryOf(k) == Cardinality({j \in FailedStages : j <= k})

C28_AllFailurePoints ==
    (NoError /\ Independent) =>
        /\ Len(analysis_result.all_failure_points) = Cardinality(FailedStages)
        /\ \A k \in FailedStages :
               /\ analysis_result.all_failure_points[EntryOf(k)].phase = PrimaryOfStage(k)[1]
               /\ analysis_result.all_failure_points[EntryOf(k)].type = PrimaryOfStage(k)[2]
        /\ analysis_result.all_failure_points = <<>>
               <=> analysis_result.failure_point = "NO_FAILURE"
        /\ analysis_result.all_failure_points # <<>> =>
               /\ analysis_result.all_failure_points[1].phase = Primary[1]
               /\ analysis_result.all_failure_points[1].type = Primary[2]

\* Three stages failed, the lifecycle among them.
C28_Witness ==
    /\ NoError
    /\ Independent
    /\ Statuses = <<"SUCCESS", "FAILED", "FAILED", "FAILED">>
    /\ Len(analysis_result.all_failure_points) = 3

(***************************************************************************)
(* C29: during the parallel log fetch, no worker opens the cached ZIP file *)
(* while another worker is still downloading it to the same cache path,    *)
(* and no worker deletes a cached ZIP that another worker is reading.      *)
(***************************************************************************)
Opens(w) ==
    /\ worker_pc[w] = "open"
    /\ worker_pc'[w] # "open"
    /\ Exists(zip_cache)

Deletes(w) ==
    /\ worker_pc[w] = "unlink"
    /\ worker_pc'[w] = "redownloading"

C29_NoOpenDuringDownloadNoDeleteDuringRead ==
    [][\A w \in Workers : \A v \in Workers \ {w} :
          /\ Opens(w) => ~Downloading(v)
          /\ Deletes(w) => ~Reading(v)]_vars

(***************************************************************************)
(* C30: find_peak_traffic_window returns the window of window_hours        *)
(* consecutive clock hours with the most matchmaking failures: the total   *)
(* it reports is the number of failure records whose failure time lies in  *)
(* [peak_start, peak_start + window_hours), and no other window of that    *)
(* length starting on an hour with failures contains more.                 *)
(***************************************************************************)
FailuresIn(start) ==
    Cardinality({i \in DOMAIN traffic_df :
                    /\ traffic_df[i].reason = "matchmaking-failed"
                    /\ traffic_df[i].updated_at >= start
                    /\ traffic_df[i].updated_at < start + Hours(window_hours)})

FailureHours ==
    {FloorHour(traffic_df[i].updated_at) :
        i \in {j \in DOMAIN traffic_df : traffic_df[j].reason = "matchmaking-failed"}}

C30_PeakWindowHasMostFailures ==
    peak.returned = "peak" =>
        /\ peak.max_failures = FailuresIn(peak.peak_start)
        /\ \A hour \in FailureHours : FailuresIn(hour) <= FailuresIn(peak.peak_start)

====
